---- MODULE Spec2Model ----
(***************************************************************************)
(* Model of the TMS timesheet filler (timesheet_bot).                      *)
(*                                                                         *)
(* Spec       : one execution of run_fill_operation (playwright_client.py) *)
(*              against a page whose answers are nondeterministic.         *)
(*              returned / raised are the outcome of the body of its with  *)
(*              statement; TMSClient.close runs when that body is left.    *)
(* SpecFill   : TMSClient.fill_timesheet alone, on richer input rows.      *)
(* SpecOffset : validate_week_offset applied to bounded arguments.         *)
(*                                                                         *)
(* Hour values (Python floats) are kept in tenths of an hour: 75 is 7.5.   *)
(* An Optional value is a sequence of length at most one.                  *)
(***************************************************************************)
EXTENDS Integers, Sequences, FiniteSets, TLC

VARIABLES
  config,            \* Config: weeks, year, auto_submit, no_overwrite
  rows,              \* the input TimesheetRows
  pc,                \* position in run_fill_operation / fill_timesheet
  disp,              \* the (year, week) the page displays
  baseline,          \* (baseline_year, baseline_week) once detected
  weeks_to_process,
  week_index,        \* 1-based, as enumerate(weeks_to_process, 1)
  target,            \* (target_year, target_week) of the current iteration
  current,           \* (current_year, current_week) re-detected before navigating
  offset,            \* offset computed by navigate_to_week for this week
  click_i,           \* loop counter of the click loop
  overall_summary,
  week_summary,
  row_index,
  day_index,
  result,            \* the ProjectFillResult under construction
  returned,          \* what run_fill_operation returned
  raised,            \* what run_fill_operation raised
  fatal,             \* history: the fatal condition met inside the week loop
  ops,               \* history: page interactions per target week
  lastCell,          \* history: the page's answers and the effects of the last _fill_cell
  vo,                \* SpecOffset: arguments and outcome of validate_week_offset
  client,            \* TMSClient: its playwright, browser, context and page handles
  cli,               \* SpecCli: the state of cmd_fill
  call               \* a pure function's argument and outcome (SpecParse, SpecCalc, SpecCsv)

vars == <<config, rows, pc, disp, baseline, weeks_to_process, week_index, target,
          current, offset, click_i, overall_summary, week_summary, row_index,
          day_index, result, returned, raised, fatal, ops, lastCell, vo, client,
          cli, call>>

None == <<>>
Some(x) == <<x>>

----------------------------------------------------------------------------
(* Bounds of the model *)

MaxWeeks == 2          \* longest week list given to a run
MaxRows == 2           \* longest row list given to fill_timesheet in SpecFill
OffsetMargin == 2      \* how far past the default bounds SpecOffset draws offsets
MaxBoundArg == 2       \* small max_forward / max_backward arguments in SpecOffset
MaxCsvRows == 3        \* most data rows in a CSV file
MaxWeekArgLen == 3     \* longest --weeks string given to validate_args
MaxNumberLen == 3      \* longest project_number text given to TimesheetRow
MaxSpecLen == 5        \* longest week specification string given to parse_week_range

(* Program constants *)

MaxForward == 10
MaxBackward == 20
WeeksPerYear == 52

----------------------------------------------------------------------------
(* week_utils.py *)

calculate_week_offset_53(baseline_year, baseline_week, target_year, target_week) ==
  (target_year * 53 + target_week) - (baseline_year * 53 + baseline_week)

calculate_week_offset(baseline_year, baseline_week, target_year, target_week) ==
  LET baseline_index == baseline_year * WeeksPerYear + baseline_week
      target_index == target_year * WeeksPerYear + target_week
  IN target_index - baseline_index

validate_week_offset_ge(off, max_forward, max_backward) ==
  IF off >= max_forward THEN "exceeds maximum forward"
  ELSE IF off < -max_backward THEN "exceeds maximum backward"
  ELSE "ok"

validate_week_offset_none(off, max_forward, max_backward) == "ok"

\* "ok" when the function returns, otherwise the ValueError it raises
validate_week_offset(off, max_forward, max_backward) ==
  IF off > max_forward THEN "exceeds maximum forward"
  ELSE IF off < -max_backward THEN "exceeds maximum backward"
  ELSE "ok"

----------------------------------------------------------------------------
(* selectors.py, models.py *)

WEEKDAYS == <<"monday", "tuesday", "wednesday", "thursday", "friday", "saturday", "sunday">>

Weekdays == {WEEKDAYS[i] : i \in 1..Len(WEEKDAYS)}

NoHours == [d \in Weekdays |-> None]

TimesheetRow(project_number, hours) ==
  [project_number |-> project_number, hours |-> hours]

get_weekday_value(row, weekday) == row.hours[weekday]

\* str(value) of the float the tenths stand for
StrOf(value) ==
  CASE value = 0 -> "0.0"
    [] value = 40 -> "4.0"
    [] value = 75 -> "7.5"

\* str.strip() on the field values the page can hold
Strip(s) == IF s = " " THEN "" ELSE s

CellFillResult(project_number, weekday, value, success, skipped, error) ==
  [project_number |-> project_number, weekday |-> weekday, value |-> value,
   success |-> success, skipped |-> skipped, error |-> error]

ProjectFillResult(project_number) ==
  [project_number |-> project_number, cells_filled |-> 0, cells_skipped |-> 0,
   cells_failed |-> 0, cell_results |-> <<>>, project_found |-> TRUE, error |-> None]

FillSummary ==
  [total_projects |-> 0, projects_found |-> 0, projects_not_found |-> 0,
   total_cells_filled |-> 0, total_cells_skipped |-> 0, total_cells_failed |-> 0,
   project_results |-> <<>>, missing_projects |-> <<>>,
   daily_totals |-> [d \in {} |-> 0]]

add_project_result_no_missing(summary, r) ==
  LET s == [summary EXCEPT !.project_results = Append(@, r),
                           !.total_projects = @ + 1]
  IN IF r.project_found
     THEN [s EXCEPT !.projects_found = @ + 1,
                    !.total_cells_filled = @ + r.cells_filled,
                    !.total_cells_skipped = @ + r.cells_skipped,
                    !.total_cells_failed = @ + r.cells_failed]
     ELSE [s EXCEPT !.projects_not_found = @ + 1]

add_project_result(summary, r) ==
  LET s == [summary EXCEPT !.project_results = Append(@, r),
                           !.total_projects = @ + 1]
  IN IF r.project_found
     THEN [s EXCEPT !.projects_found = @ + 1,
                    !.total_cells_filled = @ + r.cells_filled,
                    !.total_cells_skipped = @ + r.cells_skipped,
                    !.total_cells_failed = @ + r.cells_failed]
     ELSE [s EXCEPT !.projects_not_found = @ + 1,
                    !.missing_projects = Append(@, r.project_number)]

RECURSIVE DayTotal(_, _)
DayTotal(rs, d) ==
  IF rs = <<>> THEN 0
  ELSE LET v == get_weekday_value(Head(rs), d)
       IN (IF v # None THEN v[1] ELSE 0) + DayTotal(Tail(rs), d)

calculate_daily_totals(summary, rs) ==
  [summary EXCEPT !.daily_totals = [d \in Weekdays |-> DayTotal(rs, d)]]

----------------------------------------------------------------------------
(* The page (the external TMS and its driver), as the client sees it *)

DisplayYears == {2026, 2027}
LongYears == {2026}            \* ISO years with a week 53

WeeksInYear(y) == IF y \in LongYears THEN 53 ELSE 52

\* the week the page shows after one arrow click that took effect
PageStep(d, direction) ==
  IF direction = "forward"
  THEN IF d[2] < WeeksInYear(d[1]) THEN <<d[1], d[2] + 1>> ELSE <<d[1] + 1, 1>>
  ELSE IF d[2] > 1 THEN <<d[1], d[2] - 1>> ELSE <<d[1] - 1, WeeksInYear(d[1] - 1)>>

\* a click either moves the page one week or is not (yet) reflected by it
PageAfterClick(d, direction) == {PageStep(d, direction), d}

FieldValues == {"", " ", "8.0"}          \* what a day field may hold before a fill

ReadBacks(value) == {StrOf(value), "", "8.0"}   \* what it may hold after fill(str(value))

\* The page's answers to one _fill_cell: is the input there, what it holds, which
\* driver call raises (if any), what the field holds after the fill.
CellEnvs(value) ==
  {[found |-> FALSE, cur |-> "", fault |-> f, readback |-> ""] : f \in {"none", "locate"}}
  \cup {[found |-> TRUE, cur |-> "", fault |-> "read", readback |-> ""]}
  \cup {[found |-> TRUE, cur |-> c, fault |-> f, readback |-> ""] :
          c \in FieldValues, f \in {"clear", "fill"}}
  \cup {[found |-> TRUE, cur |-> c, fault |-> f, readback |-> r] :
          c \in FieldValues, f \in {"none", "verify"}, r \in ReadBacks(value)}

\* the three locators click_save waits for, in its order
SaveLocators == <<"primary", "alt", "alt2">>

\* what the page does to click_save: the outcome of waiting for each locator
\* (visible, PlaywrightTimeoutError, or another error), whether button.count() is 0
\* after the waits, and whether the click or a wait after it raises
SaveEnvs ==
  [wait : [{"primary", "alt", "alt2"} -> {"visible", "timeout", "error"}],
   none_counted : BOOLEAN, clickFails : BOOLEAN]

----------------------------------------------------------------------------
(* playwright_client.py: TMSClient *)

verify_current_week(detected, expected_year, expected_week) ==
  detected[1] = expected_year /\ detected[2] = expected_week

NavDirection_forward(off) == "forward"

NavDirection(off) == IF off > 0 THEN "forward" ELSE "backward"

NavClickCount(off) == IF off > 0 THEN off ELSE -off

\* _find_project_row: a locator (TRUE) or None (FALSE); a driver error gives None too
_find_project_row(answer) ==
  IF answer = "error" THEN FALSE
  ELSE IF answer = "absent" THEN FALSE
  ELSE TRUE

NotFoundResult(project_number) ==
  [ProjectFillResult(project_number) EXCEPT
     !.project_found = FALSE, !.error = Some("Project row not found in table")]

HasValue(current_value) == current_value # "" /\ Strip(current_value) # ""

ShouldSkip_never(current_value) == FALSE

ShouldSkip(current_value) == HasValue(current_value) /\ config.no_overwrite

FillVerified_always(new_value) == TRUE

FillVerified(new_value) == new_value # ""

SkippedResult_success(base) == [base EXCEPT !.skipped = TRUE, !.success = TRUE]

\* lines 562-568: the result of a cell left as it is under no_overwrite
SkippedResult(base) == [base EXCEPT !.skipped = TRUE]

\* _fill_cell under the page's answers env: the CellFillResult, and what was done to
\* the field (was it read, cleared, filled; what was read back; what it holds after)
_fill_cell(project_number, weekday, value, env) ==
  LET base == CellFillResult(project_number, weekday, value, FALSE, FALSE, None)
      failed(e) == [base EXCEPT !.error = Some(e)]
      out(r, rd, cl, wr, rb, after) ==
        [result |-> r, found |-> env.found /\ env.fault # "locate", cur |-> env.cur,
         read |-> rd, cleared |-> cl, written |-> wr, readback |-> rb, after |-> after]
      mustClear == HasValue(env.cur)
  IN
  IF env.fault = "locate" THEN
    out(failed("driver error"), FALSE, FALSE, FALSE, None, env.cur)
  ELSE IF ~env.found THEN
    out(failed("Input field not found"), FALSE, FALSE, FALSE, None, env.cur)
  ELSE IF env.fault = "read" THEN
    out(failed("driver error"), FALSE, FALSE, FALSE, None, env.cur)
  ELSE IF ShouldSkip(env.cur) THEN
    out(SkippedResult(base), TRUE, FALSE, FALSE, None, env.cur)
  ELSE IF mustClear /\ env.fault = "clear" THEN
    out(failed("driver error"), TRUE, FALSE, FALSE, None, env.cur)
  ELSE IF env.fault = "fill" THEN
    out(failed("driver error"), TRUE, mustClear, FALSE, None,
        IF mustClear THEN "" ELSE env.cur)
  ELSE IF env.fault = "verify" THEN
    out(failed("driver error"), TRUE, mustClear, TRUE, None, env.readback)
  ELSE IF FillVerified(env.readback) THEN
    out([base EXCEPT !.success = TRUE], TRUE, mustClear, TRUE, Some(env.readback),
        env.readback)
  ELSE
    out(failed("Fill verification failed"), TRUE, mustClear, TRUE, Some(env.readback),
        env.readback)

AddCell_drop_failed(r, cell_result) ==
  IF cell_result.success
  THEN [r EXCEPT !.cell_results = Append(@, cell_result), !.cells_filled = @ + 1]
  ELSE IF cell_result.skipped
  THEN [r EXCEPT !.cell_results = Append(@, cell_result), !.cells_skipped = @ + 1]
  ELSE r

\* _fill_project_row, lines 485-492: record one cell result
AddCell(r, cell_result) ==
  LET r1 == [r EXCEPT !.cell_results = Append(@, cell_result)]
  IN IF cell_result.success THEN [r1 EXCEPT !.cells_filled = @ + 1]
     ELSE IF cell_result.skipped THEN [r1 EXCEPT !.cells_skipped = @ + 1]
     ELSE [r1 EXCEPT !.cells_failed = @ + 1]

NextDay_positive(row, from) ==
  LET S == {i \in from..Len(WEEKDAYS) : get_weekday_value(row, WEEKDAYS[i]) \notin {None, Some(0)}}
  IN IF S = {} THEN 0 ELSE CHOOSE i \in S : \A j \in S : i <= j

\* index of the first weekday from position from on whose value is not None; 0 if none
NextDay(row, from) ==
  LET S == {i \in from..Len(WEEKDAYS) : get_weekday_value(row, WEEKDAYS[i]) # None}
  IN IF S = {} THEN 0 ELSE CHOOSE i \in S : \A j \in S : i <= j

SaveWaits_all(env) == SaveLocators

\* lines 612-628: the locators waited for, in turn; a wait is made only when every
\* wait before it raised PlaywrightTimeoutError
SaveWaits(env) ==
  IF env.wait["primary"] # "timeout" THEN <<"primary">>
  ELSE IF env.wait["alt"] # "timeout" THEN <<"primary", "alt">>
  ELSE <<"primary", "alt", "alt2">>

click_save_always_ok(env) ==
  LET waited == SaveWaits(env)
      last == waited[Len(waited)]
  IN [ok |-> TRUE, waited |-> waited,
      clicked |-> IF env.wait[last] = "visible" /\ ~env.none_counted
                  THEN Some(last) ELSE None]

\* click_save: the locators waited for in turn, the one clicked, and the value
\* returned.  A timeout of the last wait or any other error ends in an except clause
\* (lines 669-675) and False; so does count() = 0 (lines 630-632); the click is
\* issued on the button of the last wait.
click_save(env) ==
  LET waited == SaveWaits(env)
      last == waited[Len(waited)]
  IN IF env.wait[last] # "visible" \/ env.none_counted
     THEN [ok |-> FALSE, waited |-> waited, clicked |-> None]
     ELSE [ok |-> ~env.clickFails, waited |-> waited, clicked |-> Some(last)]

----------------------------------------------------------------------------
(* playwright_client.py: the browser session of TMSClient *)

\* the handles in the order start acquires them; close releases them in reverse
Handles == <<"playwright", "browser", "context", "page">>

HandleNames == {Handles[i] : i \in 1..Len(Handles)}

\* __init__: no handle yet
NoClient ==
  [playwright |-> "none", browser |-> "none", context |-> "none", page |-> "none",
   entered |-> FALSE, exited |-> FALSE]

\* start when its first n acquisitions succeed and the next one raises; __enter__
\* returns only when all of them succeeded
start(n) ==
  [playwright |-> IF n >= 1 THEN "open" ELSE "none",
   browser |-> IF n >= 2 THEN "open" ELSE "none",
   context |-> IF n >= 3 THEN "open" ELSE "none",
   page |-> IF n >= 4 THEN "open" ELSE "none",
   entered |-> n >= Len(Handles),
   exited |-> FALSE]

\* position of a handle in the order close goes through them: page first
CloseOrder(h) ==
  CASE h = "page" -> 1 [] h = "context" -> 2 [] h = "browser" -> 3 [] h = "playwright" -> 4

\* close when the close call of handle failing raises ("none": no call raises): the
\* handles before it are closed, it and the handles after it are not reached
close(c, failing) ==
  LET reached(h) == failing = "none" \/ CloseOrder(h) < CloseOrder(failing)
      after(h) == IF c[h] = "open" /\ reached(h) THEN "closed" ELSE c[h]
  IN [playwright |-> after("playwright"), browser |-> after("browser"),
      context |-> after("context"), page |-> after("page"),
      entered |-> c.entered, exited |-> TRUE]

----------------------------------------------------------------------------
(* Inputs *)

WeekPool == {1, 2, 52, 53}

AscendingWeeks(n) ==
  {s \in [1..n -> WeekPool] : \A i \in 1..(n - 1) : s[i] < s[i + 1]}

\* Config.weeks: None, or a list as parse_week_range builds it (ascending); the
\* empty list is what a caller bypassing Config.validate can pass
WeekSpecs == {None} \cup {Some(s) : s \in UNION {AscendingWeeks(n) : n \in 0..MaxWeeks}}

Configs ==
  [weeks : WeekSpecs,
   year : {None} \cup {Some(y) : y \in DisplayYears},
   auto_submit : BOOLEAN,
   no_overwrite : BOOLEAN]

InitDisplays == {<<2026, 52>>, <<2026, 53>>, <<2027, 1>>, <<2027, 3>>}

rowA == TimesheetRow("A", [NoHours EXCEPT !["monday"] = Some(75)])
rowC == TimesheetRow("C", [NoHours EXCEPT !["tuesday"] = Some(0), !["friday"] = Some(40)])
rowN == TimesheetRow("N", NoHours)
rowB == TimesheetRow("B", [NoHours EXCEPT !["monday"] = Some(40)])

RunRows == <<rowA, rowN>>

RowPool == {rowA, rowC, rowN}

FillRows == UNION {[1..n -> RowPool] : n \in 1..MaxRows}

----------------------------------------------------------------------------
(* History *)

\* save_call counts the calls of click_save, save the clicks it issued
NoOps == [detect |-> 0, forward |-> 0, backward |-> 0, row |-> 0, cell |-> 0, save |-> 0,
          save_call |-> 0]

Touch(kind) == [ops EXCEPT ![week_index][kind] = @ + 1]

----------------------------------------------------------------------------
(* run_fill_operation *)

ExceptionContinue(target_week, e) ==
  [pc |-> "loop", week_index |-> week_index + 1, raised |-> None, returned |-> None]

ExceptionReturnPartial(target_week, e) ==
  [pc |-> "done", week_index |-> week_index, raised |-> None,
   returned |-> Some(overall_summary)]

\* the except clause of the week loop: raise "Operation failed at Week <target_week>: <e>"
HandleWeekException(target_week, e) ==
  [pc |-> "raised", week_index |-> week_index,
   raised |-> Some([week |-> Some(target_week), cause |-> e]), returned |-> None]

\* an exception e inside the try block of the week loop
Fail(e) ==
  LET h == HandleWeekException(target[2], e)
  IN /\ pc' = h.pc
     /\ week_index' = h.week_index
     /\ raised' = h.raised
     /\ returned' = h.returned
     /\ fatal' = IF fatal = None THEN Some([index |-> week_index, cause |-> e]) ELSE fatal

\* an exception outside the try block of the week loop propagates as it is
RaiseBeforeLoop(e) ==
  /\ pc' = "raised"
  /\ raised' = Some([week |-> None, cause |-> e])
  /\ UNCHANGED <<week_index, returned, fatal>>

TargetYear_baseline_only == baseline[1]

\* lines 936-941
TargetYear == IF config.year # None THEN config.year[1] ELSE baseline[1]

NeedsNavigation(target_year, target_week) ==
  target_week # baseline[2] \/ target_year # baseline[1] \/ week_index > 1

Merge_no_missing(overall, week) ==
  [overall EXCEPT
     !.total_projects = @ + week.total_projects,
     !.projects_found = @ + week.projects_found,
     !.projects_not_found = @ + week.projects_not_found,
     !.total_cells_filled = @ + week.total_cells_filled,
     !.total_cells_skipped = @ + week.total_cells_skipped,
     !.total_cells_failed = @ + week.total_cells_failed,
     !.project_results = @ \o week.project_results]

Merge_with_totals(overall, week) ==
  [overall EXCEPT
     !.total_projects = @ + week.total_projects,
     !.projects_found = @ + week.projects_found,
     !.projects_not_found = @ + week.projects_not_found,
     !.total_cells_filled = @ + week.total_cells_filled,
     !.total_cells_skipped = @ + week.total_cells_skipped,
     !.total_cells_failed = @ + week.total_cells_failed,
     !.missing_projects = @ \o week.missing_projects,
     !.project_results = @ \o week.project_results,
     !.daily_totals = [d \in Weekdays |-> @[d] + week.daily_totals[d]]]

Merge_replace(overall, week) ==
  [week EXCEPT !.daily_totals = overall.daily_totals]

\* lines 968-975
Merge(overall, week) ==
  [overall EXCEPT
     !.total_projects = @ + week.total_projects,
     !.projects_found = @ + week.projects_found,
     !.projects_not_found = @ + week.projects_not_found,
     !.total_cells_filled = @ + week.total_cells_filled,
     !.total_cells_skipped = @ + week.total_cells_skipped,
     !.total_cells_failed = @ + week.total_cells_failed,
     !.missing_projects = @ \o week.missing_projects,
     !.project_results = @ \o week.project_results]

RunIdle ==
  /\ baseline = None /\ weeks_to_process = <<>> /\ week_index = 0
  /\ target = None /\ current = None /\ offset = None /\ click_i = 0
  /\ overall_summary = FillSummary /\ week_summary = FillSummary
  /\ row_index = 0 /\ day_index = 0 /\ result = ProjectFillResult("")
  /\ returned = None /\ raised = None /\ fatal = None
  /\ ops = <<>> /\ lastCell = None

Init ==
  /\ config \in Configs
  /\ rows = RunRows
  /\ disp \in InitDisplays
  /\ pc = "start"
  /\ RunIdle
  /\ vo = None
  /\ client = NoClient
  /\ cli = None /\ call = None

\* line 901, TMSClient.__enter__: start; when start raises, __exit__ is not called
Start ==
  /\ pc = "start"
  /\ \E n \in 0..Len(Handles) :
       /\ client' = start(n)
       /\ IF n = Len(Handles)
          THEN pc' = "navigate_to_tms" /\ UNCHANGED <<raised, week_index, returned, fatal>>
          ELSE RaiseBeforeLoop("start failed")
  /\ UNCHANGED <<cli, call, config, rows, disp, baseline, weeks_to_process, target, current, offset,
                 click_i, overall_summary, week_summary, row_index, day_index, result,
                 ops, lastCell, vo>>

\* line 901, TMSClient.__exit__: close, when the body of the with statement is left
ExitClient ==
  /\ pc \in {"done", "raised"}
  /\ client.entered /\ ~client.exited
  /\ \E failing \in {"none"} \cup HandleNames : client' = close(client, failing)
  /\ UNCHANGED <<cli, call, config, rows, pc, disp, baseline, weeks_to_process, week_index, target,
                 current, offset, click_i, overall_summary, week_summary, row_index,
                 day_index, result, returned, raised, fatal, ops, lastCell, vo>>

NavigateToTms ==
  /\ pc = "navigate_to_tms"
  /\ \E ok \in BOOLEAN :
       IF ok THEN pc' = "wait_for_manual_login" /\ UNCHANGED <<raised, week_index, returned, fatal>>
       ELSE RaiseBeforeLoop("goto failed")
  /\ UNCHANGED <<cli, call, client, config, rows, disp, baseline, weeks_to_process, target, current, offset,
                 click_i, overall_summary, week_summary, row_index, day_index, result,
                 ops, lastCell, vo>>

\* line 906: wait_for_manual_login returns, or an error other than a poll's
\* timeout leaves it (see the login wait below)
WaitForManualLogin ==
  /\ pc = "wait_for_manual_login"
  /\ \E ok \in BOOLEAN :
       IF ok THEN pc' = "wait_for_table" /\ UNCHANGED <<raised, week_index, returned, fatal>>
       ELSE RaiseBeforeLoop("login wait failed")
  /\ UNCHANGED <<cli, call, client, config, rows, disp, baseline, weeks_to_process, target, current, offset,
                 click_i, overall_summary, week_summary, row_index, day_index, result,
                 ops, lastCell, vo>>

WaitForTableAfterLogin ==
  /\ pc = "wait_for_table"
  /\ \E visible \in BOOLEAN :
       IF visible THEN pc' = "detect_baseline" /\ UNCHANGED <<raised, week_index, returned, fatal>>
       ELSE RaiseBeforeLoop("Failed to find timesheet table after login")
  /\ UNCHANGED <<cli, call, client, config, rows, disp, baseline, weeks_to_process, target, current, offset,
                 click_i, overall_summary, week_summary, row_index, day_index, result,
                 ops, lastCell, vo>>

WeeksToProcess_descending(c, baseline_week) ==
  IF c.weeks # None /\ Len(c.weeks[1]) > 0
  THEN [i \in 1..Len(c.weeks[1]) |-> c.weeks[1][Len(c.weeks[1]) + 1 - i]]
  ELSE <<baseline_week>>

\* lines 916-923: the weeks to process, in the order of the loop of line 931
WeeksToProcess(c, baseline_week) ==
  IF c.weeks # None /\ Len(c.weeks[1]) > 0 THEN c.weeks[1] ELSE <<baseline_week>>

detect_baseline_week_default(readable) ==
  IF readable THEN Some(disp) ELSE Some(<<2027, 1>>)

\* lines 217-290: the (year, week) the page displays; None when neither strategy
\* finds it and the method raises
detect_baseline_week(readable) == IF readable THEN Some(disp) ELSE None

\* lines 914-928: baseline, the weeks to process, the overall summary
DetectBaseline ==
  /\ pc = "detect_baseline"
  /\ \E readable \in BOOLEAN :
       IF detect_baseline_week(readable) # None
       THEN /\ baseline' = detect_baseline_week(readable)[1]
            /\ weeks_to_process' = WeeksToProcess(config, baseline'[2])
            /\ ops' = [i \in 1..Len(weeks_to_process') |-> NoOps]
            /\ overall_summary' = calculate_daily_totals(FillSummary, rows)
            /\ week_index' = 1
            /\ pc' = "loop"
            /\ UNCHANGED <<raised, returned, fatal>>
       ELSE /\ RaiseBeforeLoop("Could not detect baseline week from DOM")
            /\ UNCHANGED <<baseline, weeks_to_process, ops, overall_summary>>
  /\ UNCHANGED <<cli, call, client, config, rows, disp, target, current, offset, click_i, week_summary,
                 row_index, day_index, result, lastCell, vo>>

\* the head of the week loop and the test of line 947
BeginWeek ==
  /\ pc = "loop"
  /\ week_index <= Len(weeks_to_process)
  /\ LET target_week == weeks_to_process[week_index]
         target_year == TargetYear
     IN /\ target' = <<target_year, target_week>>
        /\ pc' = IF NeedsNavigation(target_year, target_week)
                 THEN "detect_current" ELSE "fill_timesheet"
  /\ offset' = None
  /\ click_i' = 0
  /\ lastCell' = None
  /\ UNCHANGED <<cli, call, client, config, rows, disp, baseline, weeks_to_process, week_index, current,
                 overall_summary, week_summary, row_index, day_index, result, returned,
                 raised, fatal, ops, vo>>

\* line 949: detect_baseline_week before navigating
DetectCurrent ==
  /\ pc = "detect_current"
  /\ ops' = Touch("detect")
  /\ \E readable \in BOOLEAN :
       IF detect_baseline_week(readable) # None
       THEN /\ current' = detect_baseline_week(readable)[1]
            /\ pc' = "navigate_to_week"
            /\ UNCHANGED <<week_index, raised, returned, fatal>>
       ELSE /\ Fail("Could not detect baseline week from DOM")
            /\ UNCHANGED current
  /\ UNCHANGED <<cli, call, client, config, rows, disp, baseline, weeks_to_process, target, offset, click_i,
                 overall_summary, week_summary, row_index, day_index, result, lastCell, vo>>

NavigationBase_run_start == baseline

\* lines 949-956: the week navigate_to_week is told the page is on
NavigationBase == current

NavigationBounds_configured(c) ==
  [max_forward |-> c.max_forward, max_backward |-> c.max_backward]

\* line 352: the bounds navigate_to_week passes to validate_week_offset, literals
NavigationBounds(c) == [max_forward |-> MaxForward, max_backward |-> MaxBackward]

\* navigate_to_week, lines 342-374: offset, bounds, the offset == 0 shortcut
NavigateStart ==
  /\ pc = "navigate_to_week"
  /\ LET base == NavigationBase
         off == calculate_week_offset(base[1], base[2], target[1], target[2])
         bounds == NavigationBounds(config)
         check == validate_week_offset(off, bounds.max_forward, bounds.max_backward)
     IN /\ offset' = Some(off)
        /\ IF check # "ok"
           THEN Fail(check)
           ELSE /\ pc' = IF off = 0 THEN "wait_for_table_week" ELSE "click_arrow"
                /\ UNCHANGED <<week_index, raised, returned, fatal>>
  /\ click_i' = 0
  /\ UNCHANGED <<cli, call, client, config, rows, disp, baseline, weeks_to_process, target, current,
                 overall_summary, week_summary, row_index, day_index, result, ops,
                 lastCell, vo>>

\* one iteration of the click loop, lines 377-393
ClickArrow ==
  /\ pc = "click_arrow"
  /\ click_i < NavClickCount(offset[1])
  /\ \E arrows \in BOOLEAN :
       IF arrows
       THEN /\ disp' \in PageAfterClick(disp, NavDirection(offset[1]))
            /\ ops' = Touch(NavDirection(offset[1]))
            /\ click_i' = click_i + 1
            /\ UNCHANGED <<pc, week_index, raised, returned, fatal>>
       ELSE /\ Fail("Week navigation arrow not found")
            /\ UNCHANGED <<disp, ops, click_i>>
  /\ UNCHANGED <<cli, call, client, config, rows, baseline, weeks_to_process, target, current, offset,
                 overall_summary, week_summary, row_index, day_index, result, lastCell, vo>>

\* lines 395-402: verify_current_week after the last click
VerifyArrival ==
  /\ pc = "click_arrow"
  /\ click_i >= NavClickCount(offset[1])
  /\ ops' = Touch("detect")
  /\ \E detected \in BOOLEAN :
       IF ~detected THEN Fail("Could not detect baseline week from DOM")
       ELSE IF ~verify_current_week(disp, target[1], target[2])
       THEN Fail("Navigation verification failed")
       ELSE /\ pc' = "wait_for_table_week"
            /\ UNCHANGED <<week_index, raised, returned, fatal>>
  /\ UNCHANGED <<cli, call, client, config, rows, disp, baseline, weeks_to_process, target, current, offset,
                 click_i, overall_summary, week_summary, row_index, day_index, result,
                 lastCell, vo>>

\* lines 958-960: wait_for_table after navigate_to_week returned
WaitForTableWeek ==
  /\ pc = "wait_for_table_week"
  /\ \E visible \in BOOLEAN :
       IF visible
       THEN pc' = "fill_timesheet" /\ UNCHANGED <<week_index, raised, returned, fatal>>
       ELSE Fail("Failed to find timesheet table")
  /\ UNCHANGED <<cli, call, client, config, rows, disp, baseline, weeks_to_process, target, current, offset,
                 click_i, overall_summary, week_summary, row_index, day_index, result,
                 ops, lastCell, vo>>

\* fill_timesheet, lines 418-422
FillTimesheetBegin ==
  /\ pc = "fill_timesheet"
  /\ week_summary' = calculate_daily_totals(FillSummary, rows)
  /\ row_index' = 1
  /\ pc' = "fill_row"
  /\ lastCell' = None
  /\ UNCHANGED <<cli, call, client, config, rows, disp, baseline, weeks_to_process, week_index, target,
                 current, offset, click_i, overall_summary, day_index, result, returned,
                 raised, fatal, ops, vo>>

\* _fill_project_row, lines 452-468: look the row up
FindRow ==
  /\ pc = "fill_row"
  /\ row_index <= Len(rows)
  /\ ops' = Touch("row")
  /\ lastCell' = None
  /\ \E answer \in {"found", "absent", "error"} :
       LET project_number == rows[row_index].project_number
       IN IF _find_project_row(answer)
          THEN /\ result' = ProjectFillResult(project_number)
               /\ day_index' = 1
               /\ pc' = "fill_cell"
               /\ UNCHANGED <<week_summary, row_index>>
          ELSE /\ week_summary' = add_project_result(week_summary, NotFoundResult(project_number))
               /\ row_index' = row_index + 1
               /\ UNCHANGED <<result, day_index, pc>>
  /\ UNCHANGED <<cli, call, client, config, rows, disp, baseline, weeks_to_process, week_index, target,
                 current, offset, click_i, overall_summary, returned, raised, fatal, vo>>

\* _fill_project_row, lines 471-492: the next weekday that has a value
FillCell ==
  /\ pc = "fill_cell"
  /\ NextDay(rows[row_index], day_index) # 0
  /\ LET d == NextDay(rows[row_index], day_index)
         value == get_weekday_value(rows[row_index], WEEKDAYS[d])[1]
     IN \E env \in CellEnvs(value) :
          LET r == _fill_cell(rows[row_index].project_number, WEEKDAYS[d], value, env)
          IN /\ result' = AddCell(result, r.result)
             /\ lastCell' = Some(r)
             /\ day_index' = d + 1
  /\ ops' = Touch("cell")
  /\ UNCHANGED <<cli, call, client, config, rows, pc, disp, baseline, weeks_to_process, week_index, target,
                 current, offset, click_i, overall_summary, week_summary, row_index,
                 returned, raised, fatal, vo>>

\* _fill_project_row returns; fill_timesheet, line 428
RowDone ==
  /\ pc = "fill_cell"
  /\ NextDay(rows[row_index], day_index) = 0
  /\ week_summary' = add_project_result(week_summary, result)
  /\ row_index' = row_index + 1
  /\ pc' = "fill_row"
  /\ lastCell' = None
  /\ UNCHANGED <<cli, call, client, config, rows, disp, baseline, weeks_to_process, week_index, target,
                 current, offset, click_i, overall_summary, day_index, result, returned,
                 raised, fatal, ops, vo>>

\* fill_timesheet, line 440
FillTimesheetReturn ==
  /\ pc = "fill_row"
  /\ row_index > Len(rows)
  /\ pc' = "fill_done"
  /\ UNCHANGED <<cli, call, client, config, rows, disp, baseline, weeks_to_process, week_index, target,
                 current, offset, click_i, overall_summary, week_summary, row_index,
                 day_index, result, returned, raised, fatal, ops, lastCell, vo>>

SaveRequested_always(c) == TRUE

\* the test of line 978
SaveRequested(c) == c.auto_submit

\* lines 967-978 and, without auto-submit, the end of the iteration
Aggregate ==
  /\ pc = "fill_done"
  /\ overall_summary' = Merge(overall_summary, week_summary)
  /\ IF SaveRequested(config)
     THEN pc' = "click_save" /\ UNCHANGED week_index
     ELSE pc' = "loop" /\ week_index' = week_index + 1
  /\ UNCHANGED <<cli, call, client, config, rows, disp, baseline, weeks_to_process, target, current, offset,
                 click_i, week_summary, row_index, day_index, result, returned, raised,
                 fatal, ops, lastCell, vo>>

\* lines 978-987: click_save, fatal when it reports failure
ClickSave ==
  /\ pc = "click_save"
  /\ \E env \in SaveEnvs :
       LET r == click_save(env)
       IN /\ ops' = [ops EXCEPT ![week_index].save_call = @ + 1,
                                ![week_index].save = IF r.clicked # None THEN @ + 1 ELSE @]
          /\ IF r.ok
             THEN /\ pc' = "loop"
                  /\ week_index' = week_index + 1
                  /\ UNCHANGED <<raised, returned, fatal>>
             ELSE Fail("Auto-submit failed")
  /\ UNCHANGED <<cli, call, client, config, rows, disp, baseline, weeks_to_process, target, current, offset,
                 click_i, overall_summary, week_summary, row_index, day_index, result,
                 lastCell, vo>>

\* lines 995-1005: every week completed; with auto-submit the closing
\* page.wait_for_timeout(2000) comes first, outside the try block of the loop
ReturnSummary ==
  /\ pc = "loop"
  /\ week_index > Len(weeks_to_process)
  /\ \E waited \in (IF config.auto_submit THEN BOOLEAN ELSE {TRUE}) :
       IF waited
       THEN /\ pc' = "done"
            /\ returned' = Some(overall_summary)
            /\ UNCHANGED <<week_index, raised, fatal>>
       ELSE RaiseBeforeLoop("final wait failed")
  /\ UNCHANGED <<cli, call, client, config, rows, disp, baseline, weeks_to_process, target,
                 current, offset, click_i, overall_summary, week_summary, row_index,
                 day_index, result, ops, lastCell, vo>>

Next ==
  \/ Start
  \/ ExitClient
  \/ NavigateToTms
  \/ WaitForManualLogin
  \/ WaitForTableAfterLogin
  \/ DetectBaseline
  \/ BeginWeek
  \/ DetectCurrent
  \/ NavigateStart
  \/ ClickArrow
  \/ VerifyArrival
  \/ WaitForTableWeek
  \/ FillTimesheetBegin
  \/ FindRow
  \/ FillCell
  \/ RowDone
  \/ FillTimesheetReturn
  \/ Aggregate
  \/ ClickSave
  \/ ReturnSummary

Spec == Init /\ [][Next]_vars

----------------------------------------------------------------------------
(* run_fill_operation under the assumption that every page-driver call returns or
   times out, from pages on which a target week lies 20 weeks back *)

TerminationDisplays == {<<2027, 1 + MaxBackward>>, <<2027, 1>>}

InitTermination ==
  /\ config \in Configs
  /\ rows = RunRows
  /\ disp \in TerminationDisplays
  /\ pc = "start"
  /\ RunIdle
  /\ vo = None
  /\ client = NoClient
  /\ cli = None /\ call = None

\* every call made on the page returns or raises, so a step that can be taken is
\* taken; the run is sequential code
SpecTermination == InitTermination /\ [][Next]_vars /\ WF_vars(Next)

----------------------------------------------------------------------------
(* run_fill_operation on rows that share weekdays, from week 1 of 2027 *)

TotalsRows == {<<rowA, rowB>>, <<rowC, rowA>>}

InitTotals ==
  /\ config \in {c \in Configs : /\ c.year = None
                                 /\ ~c.no_overwrite
                                 /\ c.weeks \in {None, Some(<<1, 2>>)}}
  /\ rows \in TotalsRows
  /\ disp = <<2027, 1>>
  /\ pc = "start"
  /\ RunIdle
  /\ vo = None
  /\ client = NoClient
  /\ cli = None /\ call = None

SpecTotals == InitTotals /\ [][Next]_vars

----------------------------------------------------------------------------
(* fill_timesheet on its own: the client is on some week, the rows vary *)

InitFill ==
  /\ config \in [weeks : {None}, year : {None}, auto_submit : {FALSE},
                 no_overwrite : BOOLEAN]
  /\ rows \in FillRows
  /\ disp = <<2027, 1>>
  /\ pc = "fill_timesheet"
  /\ baseline = disp /\ weeks_to_process = <<disp[2]>> /\ week_index = 1
  /\ target = disp /\ current = None /\ offset = None /\ click_i = 0
  /\ overall_summary = calculate_daily_totals(FillSummary, rows)
  /\ week_summary = FillSummary
  /\ row_index = 0 /\ day_index = 0 /\ result = ProjectFillResult("")
  /\ returned = None /\ raised = None /\ fatal = None
  /\ ops = <<NoOps>> /\ lastCell = None
  /\ vo = None
  /\ client = start(Len(Handles))
  /\ cli = None /\ call = None

NextFill ==
  \/ FillTimesheetBegin
  \/ FindRow
  \/ FillCell
  \/ RowDone
  \/ FillTimesheetReturn

SpecFill == InitFill /\ [][NextFill]_vars

\* row lists in which every project number occurs once
DistinctRows ==
  {rs \in FillRows :
     \A i, j \in 1..Len(rs) : i # j => rs[i].project_number # rs[j].project_number}

InitFillLive == InitFill /\ rows \in DistinctRows

\* fill_timesheet is straight-line code over finite loops: a step that can be taken is taken
SpecFillLive == InitFillLive /\ [][NextFill]_vars /\ WF_vars(NextFill)

----------------------------------------------------------------------------
(* validate_week_offset on bounded arguments *)

OffsetArgs == (-(MaxBackward + OffsetMargin))..(MaxForward + OffsetMargin)

BoundArgs(default) == (0..MaxBoundArg) \cup {default}

InitOffset ==
  /\ vo \in {Some([offset |-> o, max_forward |-> f, max_backward |-> b, outcome |-> "pending"]) :
               o \in OffsetArgs, f \in BoundArgs(MaxForward), b \in BoundArgs(MaxBackward)}
  /\ config = [weeks |-> None, year |-> None, auto_submit |-> FALSE, no_overwrite |-> FALSE]
  /\ rows = <<>>
  /\ disp = <<2027, 1>>
  /\ pc = "idle"
  /\ RunIdle
  /\ client = NoClient
  /\ cli = None /\ call = None

ApplyValidate ==
  /\ vo # None
  /\ vo[1].outcome = "pending"
  /\ vo' = Some([vo[1] EXCEPT !.outcome =
                   validate_week_offset(vo[1].offset, vo[1].max_forward, vo[1].max_backward)])
  /\ UNCHANGED <<cli, call, client, config, rows, pc, disp, baseline, weeks_to_process, week_index, target,
                 current, offset, click_i, overall_summary, week_summary, row_index,
                 day_index, result, returned, raised, fatal, ops, lastCell>>

SpecOffset == InitOffset /\ [][ApplyValidate]_vars

----------------------------------------------------------------------------
(* week_utils.py: parse_week_range.  A string is a sequence of characters. *)

Digits == {"0", "4", "5"}

SpecChars == Digits \cup {",", "-", " ", "a"}

DigitValue(ch) == CASE ch = "0" -> 0 [] ch = "4" -> 4 [] ch = "5" -> 5

\* str.strip(), one end at a time
RECURSIVE LStrip(_)
LStrip(str) ==
  IF str # <<>> /\ Head(str) = " " THEN LStrip(Tail(str)) ELSE str

RECURSIVE RStrip(_)
RStrip(str) ==
  IF str # <<>> /\ str[Len(str)] = " " THEN RStrip(SubSeq(str, 1, Len(str) - 1)) ELSE str

StripStr(str) == RStrip(LStrip(str))

\* str.split(sep): always at least one part
RECURSIVE Split(_, _)
Split(str, sep) ==
  IF \E i \in 1..Len(str) : str[i] = sep
  THEN LET i == CHOOSE k \in 1..Len(str) : str[k] = sep /\ \A j \in 1..(k - 1) : str[j] # sep
       IN <<SubSeq(str, 1, i - 1)>> \o Split(SubSeq(str, i + 1, Len(str)), sep)
  ELSE <<str>>

\* re.match(r'^\d+$', part)
IsDigits(part) == part # <<>> /\ \A i \in 1..Len(part) : part[i] \in Digits

\* int(digits)
RECURSIVE IntOf(_)
IntOf(part) ==
  IF part = <<>> THEN 0
  ELSE 10 * IntOf(SubSeq(part, 1, Len(part) - 1)) + DigitValue(part[Len(part)])

\* re.match(r'^(\d+)-(\d+)$', part)
IsRange(part) ==
  LET sides == Split(part, "-")
  IN Len(sides) = 2 /\ IsDigits(sides[1]) /\ IsDigits(sides[2])

InWeekRange_to54(w) == 1 <= w /\ w <= 54

InWeekRange(w) == 1 <= w /\ w <= 53

SetToSeq_descending(S) ==
  [i \in 1..Cardinality(S) |->
     CHOOSE w \in S : Cardinality({v \in S : v > w}) = i - 1]

\* sorted(list(weeks))
SetToSortedSeq(S) ==
  [i \in 1..Cardinality(S) |->
     CHOOSE w \in S : Cardinality({v \in S : v < w}) = i - 1]

\* one part of the split: the weeks it adds, or the error raised for it
ParsePart(rawPart) ==
  LET part == StripStr(rawPart)
      bad(e) == [error |-> e, weeks |-> {}]
  IN IF part = <<>> THEN bad("Invalid week specification: empty part")
     ELSE IF \E i \in 1..Len(part) : part[i] = "-"
     THEN IF ~IsRange(part) THEN bad("Invalid range format")
          ELSE LET first == IntOf(Split(part, "-")[1])
                   last == IntOf(Split(part, "-")[2])
               IN IF first > last THEN bad("Invalid range: start week is greater than end week")
                  ELSE IF ~InWeekRange(first) THEN bad("Week number out of range")
                  ELSE IF ~InWeekRange(last) THEN bad("Week number out of range")
                  ELSE [error |-> "", weeks |-> first..last]
     ELSE IF ~IsDigits(part) THEN bad("Invalid week number")
     ELSE IF ~InWeekRange(IntOf(part)) THEN bad("Week number out of range")
     ELSE [error |-> "", weeks |-> {IntOf(part)}]

\* the loop over the parts: stops at the first part that raises
RECURSIVE ParseParts(_, _)
ParseParts(parts, weeks) ==
  IF parts = <<>> THEN [error |-> "", weeks |-> weeks]
  ELSE LET r == ParsePart(Head(parts))
       IN IF r.error # "" THEN r
          ELSE ParseParts(Tail(parts), weeks \cup r.weeks)

\* the list returned (ok), or the reason of the WeekRangeParseError raised
parse_week_range(week_spec) ==
  IF week_spec = <<>> \/ StripStr(week_spec) = <<>>
  THEN [ok |-> FALSE, weeks |-> <<>>, error |-> "Week specification cannot be empty"]
  ELSE LET r == ParseParts(Split(StripStr(week_spec), ","), {})
       IN IF r.error # "" THEN [ok |-> FALSE, weeks |-> <<>>, error |-> r.error]
          ELSE IF r.weeks = {}
          THEN [ok |-> FALSE, weeks |-> <<>>, error |-> "No valid week numbers found"]
          ELSE [ok |-> TRUE, weeks |-> SetToSortedSeq(r.weeks), error |-> ""]

WeekSpecStrings == UNION {[1..n -> SpecChars] : n \in 0..MaxSpecLen}

\* the variables no pure-function specification changes
IdleVars == <<config, rows, pc, disp, baseline, weeks_to_process, week_index, target,
              current, offset, click_i, overall_summary, week_summary, row_index,
              day_index, result, returned, raised, fatal, ops, lastCell, vo, client, cli>>

InitIdle ==
  /\ config = [weeks |-> None, year |-> None, auto_submit |-> FALSE, no_overwrite |-> FALSE]
  /\ rows = <<>>
  /\ disp = <<2027, 1>>
  /\ pc = "idle"
  /\ RunIdle
  /\ vo = None /\ cli = None
  /\ client = NoClient

InitParse ==
  /\ call \in {Some([fn |-> "parse_week_range", arg |-> str, outcome |-> None]) :
                 str \in WeekSpecStrings}
  /\ InitIdle

ApplyParse ==
  /\ call # None
  /\ call[1].fn = "parse_week_range"
  /\ call[1].outcome = None
  /\ call' = Some([call[1] EXCEPT !.outcome = Some(parse_week_range(call[1].arg))])
  /\ UNCHANGED IdleVars

SpecParse == InitParse /\ [][ApplyParse]_vars

----------------------------------------------------------------------------
(* calculate_week_offset on bounded arguments: baseline a, target b, and a third week c *)

CalcWeeks == {2025, 2026} \X {1, 2, 46, 48, 50, 52, 53}

InitCalc ==
  /\ call \in {Some([fn |-> "calculate_week_offset", arg |-> [a |-> a, b |-> b, c |-> c],
                     outcome |-> None]) : a \in CalcWeeks, b \in CalcWeeks, c \in CalcWeeks}
  /\ InitIdle

\* the function applied to (a, b), and to (b, a), (a, c), (c, b)
ApplyCalc ==
  /\ call # None
  /\ call[1].fn = "calculate_week_offset"
  /\ call[1].outcome = None
  /\ LET a == call[1].arg.a
         b == call[1].arg.b
         c == call[1].arg.c
     IN call' = Some([call[1] EXCEPT !.outcome =
                 Some([ab |-> calculate_week_offset(a[1], a[2], b[1], b[2]),
                       ba |-> calculate_week_offset(b[1], b[2], a[1], a[2]),
                       ac |-> calculate_week_offset(a[1], a[2], c[1], c[2]),
                       cb |-> calculate_week_offset(c[1], c[2], b[1], b[2])])])
  /\ UNCHANGED IdleVars

SpecCalc == InitCalc /\ [][ApplyCalc]_vars

----------------------------------------------------------------------------
(* csv_schema.py: CSVSchema.  A header string is a lowercase core, written in upper  *)
(* case or not, surrounded by blanks or not.                                        *)

HeaderStr(core, upper, pad) == [core |-> core, upper |-> upper, pad |-> pad]

Str(core) == HeaderStr(core, FALSE, FALSE)

HeaderStrip(header) == [header EXCEPT !.pad = FALSE]

HeaderLower(header) == [header EXCEPT !.upper = FALSE]

CANONICAL_HEADERS ==
  <<Str("project_number"), Str("project_name"), Str("project_task")>> \o
  [i \in 1..Len(WEEKDAYS) |-> Str(WEEKDAYS[i])]

LEGACY_ALIASES ==
  [legacy \in {Str("project_text"), Str("task")} |->
     IF legacy = Str("project_text") THEN Str("project_name") ELSE Str("project_task")]

normalize_header_no_alias(header) == HeaderLower(HeaderStrip(header))

normalize_header(header) ==
  LET normalized == HeaderLower(HeaderStrip(header))
  IN IF normalized \in DOMAIN LEGACY_ALIASES THEN LEGACY_ALIASES[normalized] ELSE normalized

\* the outcome (is_valid, error_message); missing holds the names the message lists
validate_headers(headers) ==
  IF headers = <<>>
  THEN [is_valid |-> FALSE, error |-> "CSV file is empty or has no headers",
        missing |-> <<>>]
  ELSE LET normalized_headers == [i \in 1..Len(headers) |-> normalize_header(headers[i])]
           present(h) == \E i \in 1..Len(normalized_headers) : normalized_headers[i] = h
           missing == SelectSeq(CANONICAL_HEADERS, LAMBDA h : ~present(h))
       IN IF missing # <<>>
          THEN [is_valid |-> FALSE, error |-> "CSV missing required headers",
                missing |-> missing]
          ELSE [is_valid |-> TRUE, error |-> "", missing |-> <<>>]

\* header lists: any selection of the canonical, legacy and one unknown column, in
\* this order or the reverse, all written plainly, in upper case, or padded
HeaderCores ==
  <<"project_number", "project_text", "project_name", "task", "project_task",
    "extra_column">> \o WEEKDAYS

Reverse(seq) == [i \in 1..Len(seq) |-> seq[Len(seq) + 1 - i]]

HeaderStyles == {<<FALSE, FALSE>>, <<TRUE, FALSE>>, <<FALSE, TRUE>>}

HeaderList(chosen, reversed, style) ==
  LET cores == SelectSeq(HeaderCores, LAMBDA c : c \in chosen)
      ordered == IF reversed THEN Reverse(cores) ELSE cores
  IN [i \in 1..Len(ordered) |-> HeaderStr(ordered[i], style[1], style[2])]

HeaderLists ==
  {HeaderList(chosen, reversed, style) :
     chosen \in SUBSET {HeaderCores[i] : i \in 1..Len(HeaderCores)},
     reversed \in BOOLEAN, style \in HeaderStyles}

InitHeaders ==
  /\ call \in {Some([fn |-> "validate_headers", arg |-> headers, outcome |-> None]) :
                 headers \in HeaderLists}
  /\ InitIdle

ApplyHeaders ==
  /\ call # None
  /\ call[1].fn = "validate_headers"
  /\ call[1].outcome = None
  /\ call' = Some([call[1] EXCEPT !.outcome = Some(validate_headers(call[1].arg))])
  /\ UNCHANGED IdleVars

SpecHeaders == InitHeaders /\ [][ApplyHeaders]_vars

----------------------------------------------------------------------------
(* csv_loader.py: CSVLoader._parse_rows on the data rows csv.DictReader yields.      *)
(* A data row carries its project_number text (a sequence of characters; the empty  *)
(* sequence also stands for a field the line does not reach, which DictReader        *)
(* gives as None), the text of each weekday field, and whether the line has more     *)
(* fields than the header: DictReader stores those under the key None.               *)

CsvProjectNumbers == {<<>>, <<" ">>, <<"A">>, <<" ", "B">>}

HoursTexts == {"", "7.5", "-1", "x"}

NoTexts == [d \in Weekdays |-> ""]

CsvRows ==
  {[project_number |-> pn, weekdays |-> [NoTexts EXCEPT !["monday"] = monday],
    surplus |-> surplus] :
     pn \in CsvProjectNumbers, monday \in HoursTexts, surplus \in BOOLEAN}
  \cup
  {[project_number |-> <<"A">>,
    weekdays |-> [NoTexts EXCEPT !["monday"] = monday, !["tuesday"] = tuesday],
    surplus |-> FALSE] :
     monday \in {"7.5", "x"}, tuesday \in {"-1", "x"}}

CsvFiles == UNION {[1..n -> CsvRows] : n \in 0..MaxCsvRows}

\* float(value) in tenths; None where float raises "could not convert"
FloatOf(value) ==
  CASE value = "7.5" -> Some(75)
    [] value = "-1" -> Some(-10)
    [] OTHER -> None

\* models.py: TimesheetRow(...) with __post_init__, and total_hours
NewTimesheetRow_unstripped(project_number, hours) ==
  IF project_number = <<>> \/ StripStr(project_number) = <<>>
  THEN [raised |-> "ValueError", row |-> None]
  ELSE [raised |-> "", row |-> Some(TimesheetRow(project_number, hours))]

NewTimesheetRow(project_number, hours) ==
  IF project_number = <<>> \/ StripStr(project_number) = <<>>
  THEN [raised |-> "ValueError", row |-> None]
  ELSE [raised |-> "", row |-> Some(TimesheetRow(StripStr(project_number), hours))]

RECURSIVE SumHours(_)
SumHours(values) ==
  IF values = <<>> THEN 0
  ELSE (IF Head(values) # None THEN Head(values)[1] ELSE 0) + SumHours(Tail(values))

total_hours(row) == SumHours([i \in 1..Len(WEEKDAYS) |-> row.hours[WEEKDAYS[i]]])

\* raised is "" or the exception's class; message is the text the ValueError is
\* raised with and field the field name that text holds, if it holds one: the
\* ValueError of a negative value passes through the except clause unchanged
parse_hours_value(value, field_name) ==
  IF value = ""
  THEN [raised |-> "", value |-> None, message |-> "", field |-> None]
  ELSE IF FloatOf(value) = None
       THEN [raised |-> "ValueError", value |-> None,
             message |-> "Invalid hours value for", field |-> Some(field_name)]
       ELSE IF FloatOf(value)[1] < 0
            THEN [raised |-> "ValueError", value |-> None,
                  message |-> "Hours value cannot be negative", field |-> None]
            ELSE [raised |-> "", value |-> FloatOf(value), message |-> "", field |-> None]

\* the key loop calls normalize_header on every key, the key None included; the
\* project number is looked at before any weekday value is parsed; the weekday loop
\* stops at the first value that raises
parse_row(row_dict) ==
  IF row_dict.surplus
  THEN [raised |-> "AttributeError", row |-> None, message |-> "", field |-> None]
  ELSE LET project_number == StripStr(row_dict.project_number)
           parsed == [d \in Weekdays |-> parse_hours_value(row_dict.weekdays[d], d)]
           bad == {k \in 1..Len(WEEKDAYS) : parsed[WEEKDAYS[k]].raised # ""}
       IN IF project_number = <<>>
          THEN [raised |-> "", row |-> None, message |-> "", field |-> None]
          ELSE IF bad # {}
               THEN LET k == CHOOSE m \in bad : \A n \in bad : m <= n
                    IN [raised |-> "ValueError", row |-> None,
                        message |-> parsed[WEEKDAYS[k]].message,
                        field |-> parsed[WEEKDAYS[k]].field]
               ELSE LET made == NewTimesheetRow(project_number,
                                                [d \in Weekdays |-> parsed[d].value])
                    IN [raised |-> made.raised, message |-> "Project number cannot be empty",
                        field |-> None, row |-> made.row]

\* the loop of _parse_rows from data row i on.  An outcome holds the error text's
\* fixed part (error), the line number the text names (named_line), the text of the
\* wrapped ValueError (detail) with the field name it holds (field), and line, the
\* line number of the row the error arose at (the header is line 1), 0 when the
\* error is about no row.  A ValueError becomes "Error on line N: <text>"; any other
\* exception leaves _parse_rows and becomes "Failed to load CSV" in load.
CsvFailure(error, line, named_line, detail, field) ==
  [ok |-> FALSE, rows |-> <<>>, error |-> error, line |-> line,
   named_line |-> named_line, detail |-> detail, field |-> field]

RECURSIVE ParseRowsFrom(_, _, _)
ParseRowsFrom(reader, i, acc) ==
  IF i > Len(reader)
  THEN IF acc = <<>>
       THEN CsvFailure("CSV file contains no valid data rows", 0, None, "", None)
       ELSE [ok |-> TRUE, rows |-> acc, error |-> "", line |-> 0,
             named_line |-> None, detail |-> "", field |-> None]
  ELSE LET r == parse_row(reader[i])
       IN IF r.raised = "ValueError"
          THEN CsvFailure("Error on line", i + 1, Some(i + 1), r.message, r.field)
          ELSE IF r.raised # ""
               THEN CsvFailure("Failed to load CSV", i + 1, None, "", None)
               ELSE ParseRowsFrom(reader, i + 1,
                                  IF r.row # None THEN Append(acc, r.row[1]) ELSE acc)

parse_rows(reader) == ParseRowsFrom(reader, 1, <<>>)

InitCsv ==
  /\ call \in {Some([fn |-> "load_csv", arg |-> file, outcome |-> None]) : file \in CsvFiles}
  /\ InitIdle

ApplyCsv ==
  /\ call # None
  /\ call[1].fn = "load_csv"
  /\ call[1].outcome = None
  /\ call' = Some([call[1] EXCEPT !.outcome = Some(parse_rows(call[1].arg))])
  /\ UNCHANGED IdleVars

SpecCsv == InitCsv /\ [][ApplyCsv]_vars

----------------------------------------------------------------------------
(* csv_loader.py: CSVLoader.load on a file given as its header list and data rows *)

\* _validate_headers raises CSVLoadError with the message of validate_headers;
\* otherwise the rows are parsed
load(file) ==
  LET v == validate_headers(file.headers)
  IN IF ~v.is_valid
     THEN CsvFailure(v.error, 0, None, "", None)
     ELSE parse_rows(file.rows)

\* the canonical header, the legacy one, and the header of the loader's tests
LoadHeaders ==
  {HeaderList({HeaderCores[i] : i \in 1..Len(HeaderCores)} \ dropped, FALSE, <<FALSE, FALSE>>) :
     dropped \in {{"project_text", "task", "extra_column"},
                  {"project_name", "project_task", "extra_column"},
                  {"project_text", "task", "project_name", "project_task", "extra_column"},
                  {"project_text", "task", "extra_column", "sunday"}}}

LoadRows == UNION {[1..n -> CsvRows] : n \in 0..2}

InitLoad ==
  /\ call \in {Some([fn |-> "load", arg |-> [headers |-> headers, rows |-> data],
                     outcome |-> None]) : headers \in LoadHeaders, data \in LoadRows}
  /\ InitIdle

ApplyLoad ==
  /\ call # None
  /\ call[1].fn = "load"
  /\ call[1].outcome = None
  /\ call' = Some([call[1] EXCEPT !.outcome = Some(load(call[1].arg))])
  /\ UNCHANGED IdleVars

SpecLoad == InitLoad /\ [][ApplyLoad]_vars

----------------------------------------------------------------------------
(* models.py: constructing a TimesheetRow and asking for its total *)

NumberChars == {" ", "A", "B"}

NumberStrings == UNION {[1..n -> NumberChars] : n \in 0..MaxNumberLen}

HoursPool == [Weekdays -> {None, Some(0), Some(75)}]

InitRow ==
  /\ call \in {Some([fn |-> "TimesheetRow",
                     arg |-> [project_number |-> pn, hours |-> hours],
                     outcome |-> None]) : pn \in NumberStrings, hours \in HoursPool}
  /\ InitIdle

ApplyRow ==
  /\ call # None
  /\ call[1].fn = "TimesheetRow"
  /\ call[1].outcome = None
  /\ LET made == NewTimesheetRow(call[1].arg.project_number, call[1].arg.hours)
     IN call' = Some([call[1] EXCEPT !.outcome =
                 Some([raised |-> made.raised, row |-> made.row,
                       total |-> IF made.row # None THEN Some(total_hours(made.row[1]))
                                 ELSE None])])
  /\ UNCHANGED IdleVars

SpecRow == InitRow /\ [][ApplyRow]_vars

----------------------------------------------------------------------------
(* playwright_client.py: TMSClient.wait_for_manual_login, one action per poll.      *)
(* seen lists what each poll gave; elapsed is the local of that name.               *)

poll_interval == 2000
max_wait_time == 120000

\* table.wait_for(state='visible', timeout=poll_interval): the table became visible,
\* PlaywrightTimeoutError, or another error (the page or browser was closed)
PollOutcomes == {"visible", "timeout", "error"}

LoopContinues_le(elapsed) == elapsed <= max_wait_time

\* the loop condition of line 158
LoopContinues(elapsed) == elapsed < max_wait_time

LoginDone(c, how) == [c EXCEPT !.pc = "done", !.outcome = Some(how)]

InitLogin ==
  /\ call \in {Some([fn |-> "wait_for_manual_login", arg |-> [headless |-> h],
                     pc |-> "enter", elapsed |-> 0, seen |-> <<>>, outcome |-> None]) :
                 h \in BOOLEAN}
  /\ InitIdle

\* line 149
LoginEnter ==
  /\ call # None /\ call[1].fn = "wait_for_manual_login"
  /\ call[1].pc = "enter"
  /\ call' = Some([call[1] EXCEPT !.pc = IF ~call[1].arg.headless THEN "poll" ELSE "input"])
  /\ UNCHANGED IdleVars

\* lines 158-174: one turn of the loop
LoginPoll ==
  /\ call # None /\ call[1].fn = "wait_for_manual_login"
  /\ call[1].pc = "poll"
  /\ LoopContinues(call[1].elapsed)
  /\ \E r \in PollOutcomes :
       LET c == [call[1] EXCEPT !.seen = Append(@, r)]
       IN call' = CASE r = "visible" -> Some(LoginDone(c, "returned"))
                    [] r = "timeout" -> Some([c EXCEPT !.elapsed = @ + poll_interval])
                    [] r = "error" -> Some(LoginDone(c, "raised"))
  /\ UNCHANGED IdleVars

\* lines 176-182: the loop is over; page.wait_for_timeout(5000), then return
LoginCeiling ==
  /\ call # None /\ call[1].fn = "wait_for_manual_login"
  /\ call[1].pc = "poll"
  /\ ~LoopContinues(call[1].elapsed)
  /\ \E ok \in BOOLEAN :
       call' = Some(LoginDone([call[1] EXCEPT !.seen = Append(@, IF ok THEN "waited" ELSE "wait_error")],
                              IF ok THEN "returned" ELSE "raised"))
  /\ UNCHANGED IdleVars

\* lines 184-189: input() returns when the operator presses ENTER, or raises EOFError
LoginInput ==
  /\ call # None /\ call[1].fn = "wait_for_manual_login"
  /\ call[1].pc = "input"
  /\ \E line \in BOOLEAN :
       call' = Some(LoginDone(call[1], IF line THEN "returned" ELSE "raised"))
  /\ UNCHANGED IdleVars

NextLogin ==
  \/ LoginEnter
  \/ LoginPoll
  \/ LoginCeiling
  \/ LoginInput

\* the method runs on its own; only the operator's ENTER is not bound to come
SpecLogin ==
  InitLogin /\ [][NextLogin]_vars /\ WF_vars(LoginEnter \/ LoginPoll \/ LoginCeiling)

----------------------------------------------------------------------------
(* click_save on every behaviour of the page *)

InitSave ==
  /\ call \in {Some([fn |-> "click_save", arg |-> env, outcome |-> None]) : env \in SaveEnvs}
  /\ InitIdle

ApplySave ==
  /\ call # None
  /\ call[1].fn = "click_save"
  /\ call[1].outcome = None
  /\ call' = Some([call[1] EXCEPT !.outcome = Some(click_save(call[1].arg))])
  /\ UNCHANGED IdleVars

SpecSave == InitSave /\ [][ApplySave]_vars

----------------------------------------------------------------------------
(* cli.py: cmd_fill *)

\* the variables of run_fill_operation, but for the browser session
RunVars == <<config, rows, pc, disp, baseline, weeks_to_process, week_index, target,
             current, offset, click_i, overall_summary, week_summary, row_index,
             day_index, result, returned, raised, fatal, ops, lastCell, vo>>

\* Config.validate: the first check that fails, or "ok" (cmd_fill leaves weeks None)
Config_validate(c) ==
  IF c.dry_run /\ c.auto_submit THEN "Cannot use --auto-submit with --dry-run"
  ELSE IF c.week # None /\ ~(1 <= c.week[1] /\ c.week[1] <= 53)
  THEN "Week must be between 1 and 53"
  ELSE IF c.year # None /\ ~(2000 <= c.year[1] /\ c.year[1] <= 2100)
  THEN "Year must be between 2000 and 2100"
  ELSE "ok"

DryRunStops_never(c) == FALSE

\* the test of line 202
DryRunStops(c) == c.dry_run

\* how run_fill_operation ends, as cmd_fill sees it
RunOutcomes == {"clean", "errors", "raised", "interrupted"}

ExitCode(outcome) ==
  CASE outcome = "clean" -> 0
    [] outcome = "errors" -> 1
    [] outcome = "raised" -> 1
    [] outcome = "interrupted" -> 130

CliArgs ==
  [dry_run : BOOLEAN, auto_submit : BOOLEAN,
   week : {None, Some(0), Some(1), Some(53), Some(54)},
   year : {None, Some(1999), Some(2000), Some(2100), Some(2101)},
   csv : {"loads", "CSVLoadError"}]

InitCli ==
  /\ cli \in {Some([args |-> a, pc |-> "validate", loaded |-> FALSE, engaged |-> FALSE,
                    exit |-> None]) : a \in CliArgs}
  /\ config = [weeks |-> None, year |-> None, auto_submit |-> FALSE, no_overwrite |-> FALSE]
  /\ rows = <<>>
  /\ disp = <<2027, 1>>
  /\ pc = "idle"
  /\ RunIdle
  /\ vo = None /\ call = None
  /\ client = NoClient

\* lines 156-172: build the Config and validate it
CliValidate ==
  /\ cli # None /\ cli[1].pc = "validate"
  /\ cli' = IF Config_validate(cli[1].args) = "ok"
            THEN Some([cli[1] EXCEPT !.pc = "load_csv"])
            ELSE Some([cli[1] EXCEPT !.pc = "exit", !.exit = Some(1)])
  /\ UNCHANGED <<RunVars, client, call>>

\* lines 174-199: load_csv
CliLoadCsv ==
  /\ cli # None /\ cli[1].pc = "load_csv"
  /\ cli' = IF cli[1].args.csv = "loads"
            THEN Some([cli[1] EXCEPT !.pc = "dry_run", !.loaded = TRUE])
            ELSE Some([cli[1] EXCEPT !.pc = "exit", !.exit = Some(1)])
  /\ UNCHANGED <<RunVars, client, call>>

\* lines 201-207: dry run stops here
CliDryRun ==
  /\ cli # None /\ cli[1].pc = "dry_run"
  /\ cli' = IF DryRunStops(cli[1].args)
            THEN Some([cli[1] EXCEPT !.pc = "exit", !.exit = Some(0)])
            ELSE Some([cli[1] EXCEPT !.pc = "run"])
  /\ UNCHANGED <<RunVars, client, call>>

\* lines 212-237: run_fill_operation, which starts the browser, and the exit code
CliRun ==
  /\ cli # None /\ cli[1].pc = "run"
  /\ \E n \in 0..Len(Handles), failing \in {"none"} \cup HandleNames :
       \E outcome \in (IF n = Len(Handles) THEN RunOutcomes ELSE {"raised"}) :
         /\ client' = IF n = Len(Handles) THEN close(start(n), failing) ELSE start(n)
         /\ cli' = Some([cli[1] EXCEPT !.pc = "exit", !.engaged = TRUE,
                                      !.exit = Some(ExitCode(outcome))])
  /\ UNCHANGED <<RunVars, call>>

NextCli ==
  \/ CliValidate
  \/ CliLoadCsv
  \/ CliDryRun
  \/ CliRun

SpecCli == InitCli /\ [][NextCli]_vars

----------------------------------------------------------------------------
(* cli.py: validate_args.  args.weeks is None or Some(string); the outcome holds   *)
(* the value returned and the attributes validate_args has set on args.             *)

validate_args(args) ==
  IF args.dry_run /\ args.auto_submit
  THEN [returned |-> FALSE, set |-> {}]
  ELSE IF ~args.csv_exists
       THEN [returned |-> FALSE, set |-> {}]
       ELSE [returned |-> TRUE, set |-> {}]

WeekArgStrings == UNION {[1..n -> SpecChars] : n \in 0..MaxWeekArgLen}

ArgsPool ==
  [dry_run : BOOLEAN, auto_submit : BOOLEAN, csv_exists : BOOLEAN,
   weeks : {None} \cup {Some(str) : str \in WeekArgStrings}]

InitArgs ==
  /\ call \in {Some([fn |-> "validate_args", arg |-> a, outcome |-> None]) : a \in ArgsPool}
  /\ InitIdle

ApplyArgs ==
  /\ call # None
  /\ call[1].fn = "validate_args"
  /\ call[1].outcome = None
  /\ call' = Some([call[1] EXCEPT !.outcome = Some(validate_args(call[1].arg))])
  /\ UNCHANGED IdleVars

SpecArgs == InitArgs /\ [][ApplyArgs]_vars

----------------------------------------------------------------------------
(* navigate_to_week up to its first click, on a client whose configuration carries
   max_forward and max_backward attributes *)

\* lines 342-360: the offset, the bounds check, the clicks that follow
navigate_to_week(c, baseline_week, target_week) ==
  LET off == calculate_week_offset(baseline_week[1], baseline_week[2],
                                   target_week[1], target_week[2])
      bounds == NavigationBounds(c)
      check == validate_week_offset(off, bounds.max_forward, bounds.max_backward)
  IN [offset |-> off, check |-> check,
      clicks |-> IF check = "ok" THEN NavClickCount(off) ELSE 0]

NavConfigs ==
  [max_forward : BoundArgs(MaxForward) \cup {MaxForward + OffsetMargin},
   max_backward : BoundArgs(MaxBackward) \cup {MaxBackward + OffsetMargin}]

NavBaseline == <<2026, 25>>

NavTargets == {<<NavBaseline[1], NavBaseline[2] + o>> : o \in OffsetArgs}

InitNav ==
  /\ call \in {Some([fn |-> "navigate_to_week",
                     arg |-> [config |-> c, baseline |-> NavBaseline, target |-> t],
                     outcome |-> None]) : c \in NavConfigs, t \in NavTargets}
  /\ InitIdle

ApplyNav ==
  /\ call # None
  /\ call[1].fn = "navigate_to_week"
  /\ call[1].outcome = None
  /\ call' = Some([call[1] EXCEPT !.outcome =
                Some(navigate_to_week(call[1].arg.config, call[1].arg.baseline,
                                      call[1].arg.target))])
  /\ UNCHANGED IdleVars

SpecNav == InitNav /\ [][ApplyNav]_vars

----------------------------------------------------------------------------
(* csv_generator.py and csv_loader.py: a template written and loaded again.  Texts  *)
(* are sequences of characters.  A template file is its header, the list of names   *)
(* writeheader writes (no name holds a character that is quoted on writing or       *)
(* translated on reading), and the characters of its data lines.                    *)

MaxFieldLen == 3           \* longest project_name text given to the generator
MaxTemplateProjects == 2   \* most project entries given to the generator

Whitespace == {" ", "\r", "\n"}

\* str.strip() on texts that may hold line breaks
RECURSIVE strip(_)
strip(str) ==
  IF str # <<>> /\ Head(str) \in Whitespace THEN strip(Tail(str))
  ELSE IF str # <<>> /\ str[Len(str)] \in Whitespace THEN strip(SubSeq(str, 1, Len(str) - 1))
  ELSE str

ProjectFields == <<"project_number", "project_name", "project_task">>

\* csv_generator.py lines 123-171: the ProjectData, or the error raised
validate_project_data(data) ==
  IF \E k \in 1..Len(ProjectFields) : data[ProjectFields[k]] = <<>>
  THEN [ok |-> FALSE, error |-> "Missing required fields", project |-> None]
  ELSE LET project == [f \in DOMAIN data |-> strip(data[f])]
       IN IF project.project_number = <<>>
          THEN [ok |-> FALSE, error |-> "Invalid project data", project |-> None]
          ELSE [ok |-> TRUE, error |-> "", project |-> Some(project)]

\* ProjectData.to_csv_row, in the order of the fieldnames
to_csv_row(project) ==
  <<project.project_number, project.project_name, project.project_task>>
    \o [k \in 1..Len(WEEKDAYS) |-> <<"0">>]

RECURSIVE DoubleQuotes(_)
DoubleQuotes(str) ==
  IF str = <<>> THEN <<>>
  ELSE (IF Head(str) = "\"" THEN <<"\"", "\"">> ELSE <<Head(str)>>) \o DoubleQuotes(Tail(str))

\* csv.writer with QUOTE_MINIMAL: a field is quoted when it holds the delimiter, the
\* quote character or a character of a line break
WriteField(str) ==
  IF \E k \in 1..Len(str) : str[k] \in {",", "\"", "\r", "\n"}
  THEN <<"\"">> \o DoubleQuotes(str) \o <<"\"">>
  ELSE str

RECURSIVE JoinFields(_)
JoinFields(fields) ==
  IF Len(fields) = 1 THEN WriteField(fields[1])
  ELSE WriteField(Head(fields)) \o <<",">> \o JoinFields(Tail(fields))

\* DictWriter.writerow: the fields, comma-separated, and the line terminator "\r\n"
writerow(fields) == JoinFields(fields) \o <<"\r", "\n">>

RECURSIVE WriteRows(_)
WriteRows(projects) ==
  IF projects = <<>> THEN <<>>
  ELSE writerow(to_csv_row(Head(projects))) \o WriteRows(Tail(projects))

\* CSVGenerator.generate, lines 86-120
generate(projects) ==
  IF projects = <<>>
  THEN [ok |-> FALSE, error |-> "No project data to generate CSV from", file |-> None]
  ELSE [ok |-> TRUE, error |-> "",
        file |-> Some([headers |-> CANONICAL_HEADERS, text |-> WriteRows(projects)])]

\* generate_csv_template, lines 174-204: every entry validated, then the file written
generate_csv_template(projects_data) ==
  LET validated == [k \in 1..Len(projects_data) |-> validate_project_data(projects_data[k])]
      bad == {k \in 1..Len(validated) : ~validated[k].ok}
  IN IF bad # {}
     THEN [ok |-> FALSE, error |-> "Error in project", file |-> None]
     ELSE generate([k \in 1..Len(validated) |-> validated[k].project[1]])

\* open(path, 'r') of csv_loader.py line 67, no newline argument: on reading, "\r\n"
\* and a lone "\r" become "\n"
RECURSIVE universal_newlines(_)
universal_newlines(text) ==
  IF text = <<>> THEN <<>>
  ELSE IF Head(text) = "\r"
       THEN <<"\n">> \o universal_newlines(IF Len(text) > 1 /\ text[2] = "\n"
                                            THEN SubSeq(text, 3, Len(text))
                                            ELSE Tail(text))
       ELSE <<Head(text)>> \o universal_newlines(Tail(text))

\* csv.reader over the characters read: mode is the parser's state, field the field
\* being read, record the fields of the line so far, records the lines finished.
\* A line without any field is skipped by DictReader.
RECURSIVE csv_reader(_, _, _, _, _)
csv_reader(text, mode, field, record, records) ==
  IF text = <<>>
  THEN IF mode = "start_record" THEN records ELSE Append(records, Append(record, field))
  ELSE LET ch == Head(text)
           rest == Tail(text)
           endField == csv_reader(rest, "start_field", <<>>, Append(record, field), records)
           endRecord == csv_reader(rest, "start_record", <<>>, <<>>,
                                   Append(records, Append(record, field)))
       IN CASE mode = "start_record" /\ ch = "\n" ->
                 csv_reader(rest, "start_record", <<>>, <<>>, records)
            [] mode \in {"start_record", "start_field"} /\ ch = "\"" ->
                 csv_reader(rest, "in_quoted_field", <<>>, record, records)
            [] mode = "in_quoted_field" /\ ch = "\"" ->
                 csv_reader(rest, "quote_in_quoted_field", field, record, records)
            [] mode = "in_quoted_field" /\ ch # "\"" ->
                 csv_reader(rest, "in_quoted_field", Append(field, ch), record, records)
            [] mode = "quote_in_quoted_field" /\ ch = "\"" ->
                 csv_reader(rest, "in_quoted_field", Append(field, ch), record, records)
            [] mode # "in_quoted_field" /\ ch = "," -> endField
            [] mode \notin {"start_record", "in_quoted_field"} /\ ch = "\n" -> endRecord
            [] OTHER -> csv_reader(rest, "in_field", Append(field, ch), record, records)

\* float(value) for the texts of a template's weekday fields; None where it raises
TemplateFloat(value) == IF value = <<"0">> THEN Some(0) ELSE None

\* _parse_row on one line's fields under the canonical header: rows without a
\* project number are skipped; a line with more fields than the header has the key
\* None, on which normalize_header raises AttributeError
parse_template_row(record) ==
  LET get(k) == IF k <= Len(record) THEN record[k] ELSE <<>>
      texts == [k \in 1..Len(WEEKDAYS) |-> strip(get(3 + k))]
  IN IF Len(record) > Len(CANONICAL_HEADERS) THEN [raised |-> "AttributeError", row |-> None]
     ELSE IF strip(get(1)) = <<>> THEN [raised |-> "", row |-> None]
     ELSE IF \E k \in 1..Len(texts) : texts[k] # <<>> /\ TemplateFloat(texts[k]) = None
     THEN [raised |-> "ValueError", row |-> None]
     ELSE [raised |-> "",
           row |-> Some([project_number |-> strip(get(1)),
                         project_name |-> strip(get(2)),
                         project_task |-> strip(get(3)),
                         hours |-> [d \in Weekdays |->
                                      LET k == CHOOSE m \in 1..Len(WEEKDAYS) : WEEKDAYS[m] = d
                                      IN IF texts[k] = <<>> THEN None
                                         ELSE TemplateFloat(texts[k])]])]

\* load_csv, lines 54-76 and 102-127, on a template file
load_csv(file) ==
  LET v == validate_headers(file.headers)
      records == csv_reader(universal_newlines(file.text), "start_record", <<>>, <<>>, <<>>)
      parsed == [k \in 1..Len(records) |-> parse_template_row(records[k])]
      kept == SelectSeq(parsed, LAMBDA r : r.row # None)
  IN IF ~v.is_valid THEN [ok |-> FALSE, rows |-> <<>>, error |-> v.error]
     ELSE IF \E k \in 1..Len(parsed) : parsed[k].raised # ""
     THEN [ok |-> FALSE, rows |-> <<>>, error |-> "Failed to load CSV"]
     ELSE IF kept = <<>>
     THEN [ok |-> FALSE, rows |-> <<>>, error |-> "CSV file contains no valid data rows"]
     ELSE [ok |-> TRUE, rows |-> [k \in 1..Len(kept) |-> kept[k].row[1]], error |-> ""]

TemplateChars == {"A", " ", ",", "\"", "\r"}

FieldTexts == UNION {[1..n -> TemplateChars] : n \in 0..MaxFieldLen}

\* project entries: any text as the name of the first, plain entries after it
FirstEntries ==
  [project_number : {<<"A">>, <<" ", "A">>, <<" ">>, <<"A", ",", "A">>},
   project_name : FieldTexts,
   project_task : {<<"A">>, <<>>}]

PlainEntry ==
  [project_number |-> <<"A", "A">>, project_name |-> <<"A", " ", "A">>,
   project_task |-> <<"A">>]

TemplateInputs ==
  {<<>>} \cup {<<first>> \o [k \in 1..n |-> PlainEntry] :
                 first \in FirstEntries, n \in 0..(MaxTemplateProjects - 1)}

InitTemplate ==
  /\ call \in {Some([fn |-> "generate_csv_template", arg |-> projects_data,
                     generated |-> None, outcome |-> None]) :
                 projects_data \in TemplateInputs}
  /\ InitIdle

\* generate_csv_template writes the file, or raises
GenerateTemplate ==
  /\ call # None
  /\ call[1].fn = "generate_csv_template"
  /\ call[1].generated = None
  /\ call' = Some([call[1] EXCEPT !.generated = Some(generate_csv_template(call[1].arg))])
  /\ UNCHANGED IdleVars

\* load_csv on the file written
LoadTemplate ==
  /\ call # None
  /\ call[1].fn = "generate_csv_template"
  /\ call[1].generated # None
  /\ call[1].generated[1].ok
  /\ call[1].outcome = None
  /\ call' = Some([call[1] EXCEPT !.outcome = Some(load_csv(call[1].generated[1].file[1]))])
  /\ UNCHANGED IdleVars

NextTemplate == GenerateTemplate \/ LoadTemplate

SpecTemplate == InitTemplate /\ [][NextTemplate]_vars

----------------------------------------------------------------------------
(* gui.py: the window, its four buttons, its two progress dialogs and its worker    *)
(* threads.  workers lists the QThreads started, in order: kind, state ("running",   *)
(* then "finished" or "error" once run() has emitted that signal, "handled" once the *)
(* connected slot has run) and the number of signals emitted.  A progress dialog is  *)
(* window-modal: while it is shown the window takes no click.  It has no cancel      *)
(* button, and like any QDialog it is closed by Escape or by its close button.       *)
(* validateInput starts no thread and changes none of this state.                   *)

MaxGuiWorkers == 3     \* most worker threads started from one window

GuiCall == call # None /\ call[1].fn = "TimesheetGUI"

\* a window-modal dialog of the window is shown
WindowBlocked(w) == w.progress_dialog \/ w.fetch_progress_dialog

NewWorker(kind) == [kind |-> kind, state |-> "running", emitted |-> 0]

InitGui ==
  /\ call \in {Some([fn |-> "TimesheetGUI", rows |-> loaded,
                     load_button |-> TRUE, fetch_button |-> TRUE,
                     validate_button |-> TRUE, run_button |-> TRUE,
                     progress_dialog |-> FALSE, fetch_progress_dialog |-> FALSE,
                     workers |-> <<>>]) : loaded \in BOOLEAN}
  /\ InitIdle

\* lines 351-397: openFileDialog and loadCSV; a file that fails to load leaves rows
loadCSV ==
  /\ GuiCall
  /\ call[1].load_button /\ ~WindowBlocked(call[1])
  /\ \E loaded \in BOOLEAN :
       call' = Some([call[1] EXCEPT !.rows = IF loaded THEN TRUE ELSE @])
  /\ UNCHANGED IdleVars

\* lines 399-442: no thread when the file dialog is cancelled
fetchTemplateFromTMS ==
  /\ GuiCall
  /\ call[1].fetch_button /\ ~WindowBlocked(call[1])
  /\ Len(call[1].workers) < MaxGuiWorkers
  /\ \E chosen \in BOOLEAN :
       IF ~chosen THEN UNCHANGED call
       ELSE call' = Some([call[1] EXCEPT
                            !.workers = Append(@, NewWorker("fetch")),
                            !.fetch_progress_dialog = TRUE,
                            !.fetch_button = FALSE, !.load_button = FALSE,
                            !.validate_button = FALSE, !.run_button = FALSE])
  /\ UNCHANGED IdleVars

\* lines 578-678: no thread without rows, without a valid week text or without the
\* operator's confirmation
runAutomation ==
  /\ GuiCall
  /\ call[1].run_button /\ ~WindowBlocked(call[1])
  /\ Len(call[1].workers) < MaxGuiWorkers
  /\ \E confirmed \in BOOLEAN :
       IF ~call[1].rows \/ ~confirmed THEN UNCHANGED call
       ELSE call' = Some([call[1] EXCEPT
                            !.workers = Append(@, NewWorker("automation")),
                            !.progress_dialog = TRUE,
                            !.validate_button = FALSE, !.run_button = FALSE])
  /\ UNCHANGED IdleVars

\* the operator closes a progress dialog: QDialog.reject on Escape, closeEvent on the
\* close button
DismissDialog ==
  /\ GuiCall
  /\ WindowBlocked(call[1])
  /\ \/ /\ call[1].progress_dialog
        /\ call' = Some([call[1] EXCEPT !.progress_dialog = FALSE])
     \/ /\ call[1].fetch_progress_dialog
        /\ call' = Some([call[1] EXCEPT !.fetch_progress_dialog = FALSE])
  /\ UNCHANGED IdleVars

\* AutomationWorker.run, lines 166-172, and FetchTemplateWorker.run, lines 187-250:
\* the operation returns and finished is emitted, or raises and error is emitted
WorkerRun ==
  /\ GuiCall
  /\ \E k \in 1..Len(call[1].workers) : \E signal \in {"finished", "error"} :
       /\ call[1].workers[k].state = "running"
       /\ call' = Some([call[1] EXCEPT !.workers[k].state = signal,
                                       !.workers[k].emitted = @ + 1])
  /\ UNCHANGED IdleVars

\* onAutomationFinished and onAutomationError, lines 680-741
onAutomationSignal ==
  /\ GuiCall
  /\ \E k \in 1..Len(call[1].workers) :
       /\ call[1].workers[k].kind = "automation"
       /\ call[1].workers[k].state \in {"finished", "error"}
       /\ call' = Some([call[1] EXCEPT !.workers[k].state = "handled",
                                       !.progress_dialog = FALSE,
                                       !.validate_button = TRUE, !.run_button = TRUE])
  /\ UNCHANGED IdleVars

\* onFetchFinished and onFetchError, lines 444-488
onFetchSignal ==
  /\ GuiCall
  /\ \E k \in 1..Len(call[1].workers) :
       /\ call[1].workers[k].kind = "fetch"
       /\ call[1].workers[k].state \in {"finished", "error"}
       /\ call' = Some([call[1] EXCEPT !.workers[k].state = "handled",
                                       !.fetch_progress_dialog = FALSE,
                                       !.fetch_button = TRUE, !.load_button = TRUE,
                                       !.validate_button = TRUE, !.run_button = TRUE])
  /\ UNCHANGED IdleVars

NextGui ==
  \/ loadCSV
  \/ fetchTemplateFromTMS
  \/ runAutomation
  \/ DismissDialog
  \/ WorkerRun
  \/ onAutomationSignal
  \/ onFetchSignal

SpecGui == InitGui /\ [][NextGui]_vars

----------------------------------------------------------------------------
(* Properties of run_fill_operation (Spec) *)

\* states in which week_index is the week that offset and ops[week_index] belong to
\* inside the iteration of target week week_index, or raised out of it
InWeek ==
  /\ pc \in {"click_arrow", "wait_for_table_week", "fill_timesheet", "fill_row",
             "fill_cell", "fill_done", "click_save", "raised"}
  /\ week_index \in 1..Len(weeks_to_process)

LaterWeeksUntouched(k) == \A j \in DOMAIN ops : j > k => ops[j] = NoOps

\* C1: fail-fast across weeks. Once a fatal condition has occurred while processing
\* target week k, the run has ended by raising and no page interaction of any kind
\* has been performed for a target week after k.
C1_FailFast ==
  fatal # None =>
    /\ pc = "raised"
    /\ raised # None
    /\ LaterWeeksUntouched(fatal[1].index)

\* a commit failure in week 1 of 2, after week 1 was filled
C1_Witness ==
  /\ fatal # None
  /\ fatal[1].index = 1
  /\ fatal[1].cause = "Auto-submit failed"
  /\ Len(weeks_to_process) = 2
  /\ ops[1].row > 0

\* C2: the run either returns a FillSummary after every target week completed, or
\* raises; a failure inside the week loop names the target week being processed and
\* carries the cause, and no summary (not even the weeks already gathered) is returned.
C2_RunOutcome ==
  /\ ~(returned # None /\ raised # None)
  /\ (pc = "done") <=> (returned # None)
  /\ (pc = "raised") <=> (raised # None)
  /\ returned # None =>
       /\ fatal = None
       /\ week_index = Len(weeks_to_process) + 1
       /\ returned[1] = overall_summary
       /\ returned[1].total_projects = Len(weeks_to_process) * Len(rows)
  /\ fatal # None =>
       /\ returned = None
       /\ raised = Some([week |-> Some(weeks_to_process[fatal[1].index]),
                         cause |-> fatal[1].cause])

\* the run raised in week 2 while the results of week 1 were already gathered
C2_Witness ==
  /\ pc = "raised"
  /\ fatal # None
  /\ fatal[1].index = 2
  /\ overall_summary.total_projects = Len(rows)
  /\ returned = None

\* C3: cell filling for a target week starts only while the page displays the target
\* (year, week); when navigate_to_week has returned, the displayed pair is the target.
C3_ArrivalVerified ==
  pc \in {"wait_for_table_week", "fill_timesheet", "fill_row", "fill_cell", "fill_done"}
    => disp = target

C5_BoundsBeforePage ==
  (offset # None /\ InWeek /\ (offset[1] > MaxForward \/ offset[1] < -MaxBackward)) =>
    /\ pc = "raised"
    /\ fatal # None
    /\ fatal[1].index = week_index
    /\ ops[week_index].forward = 0
    /\ ops[week_index].backward = 0
    /\ ops[week_index].row = 0
    /\ ops[week_index].cell = 0
    /\ ops[week_index].save = 0

\* week 1 was filled, then week 52 of the same year is 51 weeks ahead
C5_Witness ==
  /\ pc = "raised"
  /\ offset = Some(51)
  /\ week_index = 2
  /\ fatal # None
  /\ fatal[1].cause = "exceeds maximum forward"
  /\ ops[1].row > 0

\* C7: without a WeekSpec the run processes exactly one week, the (year, week) displayed
\* at baseline detection, whatever Config.year is: no navigation click, and no failure
\* of the navigation bounds.
C7_SingleWeekMode ==
  ((config.weeks = None \/ config.weeks = Some(<<>>)) /\ baseline # None) =>
    /\ weeks_to_process = <<baseline[2]>>
    /\ ops[1].forward = 0
    /\ ops[1].backward = 0
    /\ target # None => target = baseline
    /\ fatal # None => fatal[1].cause \notin {"exceeds maximum forward", "exceeds maximum backward"}

----------------------------------------------------------------------------
(* Properties of validate_week_offset (SpecOffset) *)

\* C6: validate_week_offset raises if and only if offset > max_forward or
\* offset < -max_backward; offset = max_forward, offset = -max_backward and
\* offset = 0 do not raise.
C6_ValidateOffset ==
  (vo # None /\ vo[1].outcome # "pending") =>
    LET a == vo[1]
    IN /\ (a.outcome # "ok") <=> (a.offset > a.max_forward \/ a.offset < -a.max_backward)
       /\ (a.offset = a.max_forward \/ a.offset = -a.max_backward \/ a.offset = 0)
            => a.outcome = "ok"

\* the default forward bound itself is accepted
C6_Witness ==
  /\ vo # None
  /\ vo[1].offset = MaxForward
  /\ vo[1].max_forward = MaxForward
  /\ vo[1].outcome = "ok"

----------------------------------------------------------------------------
(* Properties of fill_timesheet (SpecFill) *)

C9_ReadBackAsWritten ==
  (lastCell # None /\ lastCell[1].written /\ lastCell[1].readback # None) =>
    LET c == lastCell[1]
        same == c.readback[1] = StrOf(c.result.value)
    IN /\ ~same => (~c.result.success /\ ~c.result.skipped /\ c.result.error # None)
       /\ c.result.success => same

\* C9 amended: a written cell whose read-back is empty is recorded as failed, without
\* ending the fill; only a written cell with a non-empty read-back is a success.
C9_ReadBackNonEmpty ==
  lastCell # None =>
    LET c == lastCell[1]
    IN /\ (c.written /\ c.readback = Some("")) =>
            /\ ~c.result.success /\ ~c.result.skipped
            /\ c.result.error = Some("Fill verification failed")
            /\ pc = "fill_cell" /\ fatal = None /\ raised = None
       /\ c.result.success =>
            /\ c.written /\ c.readback # None /\ c.readback[1] # ""
            /\ ~c.result.skipped /\ c.result.error = None

\* the write did not land: the read-back is empty and the cell is a failed cell
C9_Witness ==
  /\ lastCell # None
  /\ lastCell[1].written
  /\ lastCell[1].readback = Some("")
  /\ lastCell[1].result.error = Some("Fill verification failed")
  /\ result.cells_failed > 0

InstructedDays(row) == SelectSeq(WEEKDAYS, LAMBDA d : get_weekday_value(row, d) # None)

RECURSIVE MissingNumbers(_)
MissingNumbers(res) ==
  IF res = <<>> THEN <<>>
  ELSE (IF Head(res).project_found THEN <<>> ELSE <<Head(res).project_number>>)
       \o MissingNumbers(Tail(res))

RECURSIVE FoundSum(_, _)
FoundSum(res, counter) ==
  IF res = <<>> THEN 0
  ELSE (IF Head(res).project_found THEN Head(res)[counter] ELSE 0)
       + FoundSum(Tail(res), counter)

\* the result recorded for input row i depends on row i alone
RowResultShape(r, row) ==
  /\ r.project_number = row.project_number
  /\ IF r.project_found
     THEN /\ r.error = None
          /\ Len(r.cell_results) = Len(InstructedDays(row))
          /\ \A k \in 1..Len(r.cell_results) :
               /\ r.cell_results[k].project_number = row.project_number
               /\ r.cell_results[k].weekday = InstructedDays(row)[k]
               /\ r.cell_results[k].value = get_weekday_value(row, InstructedDays(row)[k])[1]
          /\ r.cells_filled + r.cells_skipped + r.cells_failed = Len(r.cell_results)
     ELSE /\ r.error # None
          /\ r.cell_results = <<>>
          /\ r.cells_filled = 0 /\ r.cells_skipped = 0 /\ r.cells_failed = 0

\* C10: a row whose project is not on the page yields a result with found = false, an
\* error and no cell results, its number is added to missing_projects, and the fill
\* goes on with the next row: every input row processed so far has exactly one result,
\* in input order, whose shape and cells are those of its own row whatever happened to
\* the other rows, and only the found rows feed the cell counters.
C10_ProjectIndependence ==
  pc \in {"fill_row", "fill_cell", "fill_done"} =>
    LET res == week_summary.project_results
    IN /\ Len(res) = row_index - 1
       /\ \A i \in 1..Len(res) : RowResultShape(res[i], rows[i])
       /\ week_summary.missing_projects = MissingNumbers(res)
       /\ week_summary.projects_not_found = Len(MissingNumbers(res))
       /\ week_summary.projects_found = Len(res) - Len(MissingNumbers(res))
       /\ week_summary.total_projects = Len(res)
       /\ week_summary.total_cells_filled = FoundSum(res, "cells_filled")
       /\ week_summary.total_cells_skipped = FoundSum(res, "cells_skipped")
       /\ week_summary.total_cells_failed = FoundSum(res, "cells_failed")

\* the first row's project is missing, the second row's is found and its cell filled
C10_Witness ==
  /\ pc = "fill_done"
  /\ Len(rows) = 2
  /\ ~week_summary.project_results[1].project_found
  /\ week_summary.project_results[2].project_found
  /\ week_summary.project_results[2].cells_filled = 1
  /\ week_summary.missing_projects = <<rows[1].project_number>>
  /\ week_summary.projects_found = 1
  /\ week_summary.projects_not_found = 1

\* a cell whose field was missing, whose driver call raised or whose write did not verify
CellTrouble(c) ==
  \/ ~c.found
  \/ c.result.error # None

C11_Recorded ==
  /\ fatal = None /\ raised = None
  /\ pc \in {"fill_timesheet", "fill_row", "fill_cell", "fill_done"}
  /\ (lastCell # None /\ CellTrouble(lastCell[1])) =>
       LET c == lastCell[1].result
       IN /\ ~c.success /\ ~c.skipped /\ c.error # None
          /\ pc = "fill_cell"
          /\ result.cell_results # <<>>
          /\ result.cell_results[Len(result.cell_results)] = c
          /\ result.cells_failed > 0
  /\ pc = "fill_cell" =>
       \* every weekday with a value before day_index has its cell result
       Len(result.cell_results) =
         Cardinality({i \in 1..(day_index - 1) :
                        get_weekday_value(rows[row_index], WEEKDAYS[i]) # None})
  /\ pc = "fill_done" =>
       /\ Len(week_summary.project_results) = Len(rows)
       /\ \A i \in 1..Len(rows) :
            LET r == week_summary.project_results[i]
            IN IF r.project_found
               THEN Len(r.cell_results) = Len(InstructedDays(rows[i]))
               ELSE /\ r.error # None
                    /\ \E k \in 1..Len(week_summary.missing_projects) :
                         week_summary.missing_projects[k] = rows[i].project_number

\* C11: during fill_timesheet a missing row, a missing field, a failed verification or
\* a driver error never raises: it is recorded as a not-found project or a failed
\* cell, every remaining weekday and row is still processed, and fill_timesheet
\* always comes to return its summary with one result per input row.
C11_RowCellFailuresNeverAbort == [](C11_Recorded) /\ <>(pc = "fill_done")

\* the first row was not found, a cell of the second row failed on a driver error, and
\* fill_timesheet still returned
C11_Witness ==
  /\ pc = "fill_done"
  /\ Len(rows) = 2
  /\ ~week_summary.project_results[1].project_found
  /\ week_summary.project_results[2].project_found
  /\ week_summary.project_results[2].cells_failed > 0
  /\ \E k \in 1..Len(week_summary.project_results[2].cell_results) :
       week_summary.project_results[2].cell_results[k].error = Some("driver error")

----------------------------------------------------------------------------
(* Commit *)

\* the states of target week week_index before its commit has been reported
WeekOpen == pc \in {"detect_current", "navigate_to_week", "click_arrow",
                    "wait_for_table_week", "fill_timesheet", "fill_row", "fill_cell",
                    "fill_done"}

\* C12: with auto-submit, the save click of a target week comes after the last cell
\* operation of that week, and the run moves on to the next target week, or returns,
\* only with the save of every week before clicked and reported successful; when the
\* commit control is not found or the click fails the run raises in that week and
\* touches no later week.
C12_CommitGatesProgress ==
  config.auto_submit =>
    /\ WeekOpen => ops[week_index].save = 0
    /\ pc = "click_save" =>
         /\ ops[week_index].save = 0
         /\ Len(week_summary.project_results) = Len(rows)
    /\ (WeekOpen \/ pc \in {"click_save", "loop", "done"}) =>
         \A j \in 1..(week_index - 1) : ops[j].save = 1
    /\ returned # None => \A j \in DOMAIN ops : ops[j].save = 1
    /\ (fatal # None /\ fatal[1].cause = "Auto-submit failed") =>
         /\ pc = "raised"
         /\ returned = None
         /\ week_index = fatal[1].index
         /\ \A j \in 1..(week_index - 1) : ops[j].save = 1
         /\ LaterWeeksUntouched(week_index)

\* week 1 was committed and week 2 is being filled
C12_Witness ==
  /\ config.auto_submit
  /\ week_index = 2
  /\ pc = "fill_cell"
  /\ ops[1].save = 1
  /\ ops[1].cell > 0
  /\ ops[2].cell > 0

----------------------------------------------------------------------------
(* Browser session *)

\* run_fill_operation has returned or raised: the with statement has been left, or
\* was never entered because start raised
RunOver == pc \in {"done", "raised"} /\ (client.exited \/ ~client.entered)

\* C13: when run_fill_operation has returned or raised, no handle of the browser
\* session that was acquired (page, context, browser, driver) is still open.
C13_BrowserReleased ==
  RunOver => \A h \in HandleNames : client[h] # "open"

----------------------------------------------------------------------------
(* Properties of cmd_fill (SpecCli) *)

\* C14: with dry_run set, cmd_fill never calls run_fill_operation (no browser handle
\* is acquired) and exits 0 only after the CSV was loaded; with dry_run and
\* auto_submit both set it is rejected with exit code 1 by Config.validate, before
\* the CSV is loaded.
C14_DryRunNeverRuns ==
  (cli # None /\ cli[1].args.dry_run) =>
    /\ ~cli[1].engaged
    /\ cli[1].pc # "run"
    /\ client = NoClient
    /\ (cli[1].pc = "exit" /\ cli[1].exit = Some(0)) => cli[1].loaded
    /\ cli[1].args.auto_submit =>
         /\ ~cli[1].loaded
         /\ cli[1].pc \in {"validate", "exit"}
         /\ cli[1].pc = "exit" => cli[1].exit = Some(1)

\* a dry run that validated its input and stopped
C14_Witness ==
  /\ cli # None
  /\ cli[1].args.dry_run
  /\ ~cli[1].args.auto_submit
  /\ cli[1].pc = "exit"
  /\ cli[1].exit = Some(0)
  /\ cli[1].loaded
  /\ ~cli[1].engaged

----------------------------------------------------------------------------
(* Properties of the summary *)

\* the hours the first i input rows plan for weekday d
RECURSIVE PlannedHours(_, _)
PlannedHours(i, d) ==
  IF i = 0 THEN 0
  ELSE PlannedHours(i - 1, d) + (IF rows[i].hours[d] = None THEN 0 ELSE rows[i].hours[d][1])

\* C15: the daily totals of the run's summary are, for every weekday, the sum of the
\* input rows' non-null values for it, whatever the cell outcomes, the projects
\* found or missing and the number of target weeks processed.
C15_DailyTotalsFromInput ==
  /\ baseline # None =>
       /\ DOMAIN overall_summary.daily_totals = Weekdays
       /\ \A d \in Weekdays : overall_summary.daily_totals[d] = PlannedHours(Len(rows), d)
  /\ returned # None =>
       /\ DOMAIN returned[1].daily_totals = Weekdays
       /\ \A d \in Weekdays : returned[1].daily_totals[d] = PlannedHours(Len(rows), d)

\* two weeks were processed, with a failed cell and a missing project among them, and
\* monday still totals 7.5 + 4.0
C15_Witness ==
  /\ returned # None
  /\ Len(weeks_to_process) = 2
  /\ returned[1].total_cells_failed > 0
  /\ returned[1].total_cells_filled > 0
  /\ returned[1].projects_not_found > 0
  /\ returned[1].daily_totals["monday"] = 115

SummaryConsistent(s) ==
  /\ s.total_projects = s.projects_found + s.projects_not_found
  /\ s.total_projects = Len(s.project_results)
  /\ Len(s.missing_projects) = s.projects_not_found
  /\ s.missing_projects = MissingNumbers(s.project_results)
  /\ s.total_cells_filled = FoundSum(s.project_results, "cells_filled")
  /\ s.total_cells_skipped = FoundSum(s.project_results, "cells_skipped")
  /\ s.total_cells_failed = FoundSum(s.project_results, "cells_failed")

\* C16: after any sequence of add_project_result calls and per-week merges, in the
\* week's summary and in the run's summary alike, total_projects = projects_found +
\* projects_not_found = number of project results, missing_projects lists exactly the
\* not-found results' project numbers in order, and the three cell counters are the
\* sums of the found results' counters.
C16_SummaryAggregation ==
  /\ SummaryConsistent(week_summary)
  /\ SummaryConsistent(overall_summary)
  /\ returned # None => SummaryConsistent(returned[1])

\* two weeks merged: four results, a missing project in each week, a failed cell
C16_Witness ==
  /\ pc = "done"
  /\ overall_summary.total_projects = 4
  /\ overall_summary.projects_not_found = 2
  /\ Len(overall_summary.missing_projects) = 2
  /\ overall_summary.total_cells_failed > 0
  /\ overall_summary.total_cells_filled > 0

----------------------------------------------------------------------------
(* Properties of parse_week_range (SpecParse) *)

\* the atoms of a week specification: the maximal comma-free stretches i..j
AtomBounds(str) ==
  {b \in (1..(Len(str) + 1)) \X (0..Len(str)) :
     /\ b[2] >= b[1] - 1
     /\ b[1] = 1 \/ str[b[1] - 1] = ","
     /\ b[2] = Len(str) \/ str[b[2] + 1] = ","
     /\ \A k \in b[1]..b[2] : str[k] # ","}

\* an atom without the blanks around it
Trimmed(str, b) ==
  LET ks == {k \in b[1]..b[2] : str[k] # " "}
  IN IF ks = {} THEN <<>>
     ELSE SubSeq(str, CHOOSE k \in ks : \A m \in ks : k <= m,
                      CHOOSE k \in ks : \A m \in ks : k >= m)

Atoms(str) == {Trimmed(str, b) : b \in AtomBounds(str)}

RECURSIVE Pow10(_)
Pow10(n) == IF n = 0 THEN 1 ELSE 10 * Pow10(n - 1)

RECURSIVE DecimalSum(_, _)
DecimalSum(t, k) ==
  IF k > Len(t) THEN 0 ELSE DigitValue(t[k]) * Pow10(Len(t) - k) + DecimalSum(t, k + 1)

AllDigits(t) == t # <<>> /\ \A k \in 1..Len(t) : t[k] \in Digits

\* the positions at which t reads N-M
RangeDash(t) ==
  {k \in 1..Len(t) : /\ t[k] = "-"
                      /\ AllDigits(SubSeq(t, 1, k - 1))
                      /\ AllDigits(SubSeq(t, k + 1, Len(t)))}

RangeStart(t) == DecimalSum(SubSeq(t, 1, (CHOOSE k \in RangeDash(t) : TRUE) - 1), 1)

RangeEnd(t) ==
  DecimalSum(SubSeq(t, (CHOOSE k \in RangeDash(t) : TRUE) + 1, Len(t)), 1)

\* the weeks an atom names
AtomWeeks(t) ==
  IF AllDigits(t) THEN {DecimalSum(t, 1)}
  ELSE IF RangeDash(t) # {} THEN RangeStart(t)..RangeEnd(t)
  ELSE {}

NamedWeeks(str) == UNION {AtomWeeks(t) : t \in Atoms(str)}

Decided == call # None /\ call[1].fn = "parse_week_range" /\ call[1].outcome # None

\* C17: for every accepted input parse_week_range returns a strictly ascending list of
\* integers in 1..53 whose elements are exactly the weeks named by the atoms of the
\* input; so neither the order of the atoms nor repeated or overlapping atoms matter.
C17_ParseSortedUnion ==
  (Decided /\ call[1].outcome[1].ok) =>
    LET w == call[1].outcome[1].weeks
    IN /\ w # <<>>
       /\ \A i \in 1..Len(w) : w[i] \in 1..53
       /\ \A i \in 1..(Len(w) - 1) : w[i] < w[i + 1]
       /\ {w[i] : i \in 1..Len(w)} = NamedWeeks(call[1].arg)

\* "5,4-5": atoms out of order and overlapping give [4, 5]
C17_Witness ==
  /\ Decided
  /\ call[1].arg = <<"5", ",", "4", "-", "5">>
  /\ call[1].outcome[1].ok
  /\ call[1].outcome[1].weeks = <<4, 5>>

BlankInput(str) == \A k \in 1..Len(str) : str[k] = " "

AtomDefects(t) ==
  {d \in {"empty atom", "malformed atom", "out of range", "start exceeds end"} :
     \/ d = "empty atom" /\ t = <<>>
     \/ d = "malformed atom" /\ t # <<>> /\ ~AllDigits(t) /\ RangeDash(t) = {}
     \/ d = "out of range" /\ AllDigits(t) /\ DecimalSum(t, 1) \notin 1..53
     \/ d = "out of range" /\ RangeDash(t) # {}
          /\ (RangeStart(t) \notin 1..53 \/ RangeEnd(t) \notin 1..53)
     \/ d = "start exceeds end" /\ RangeDash(t) # {} /\ RangeStart(t) > RangeEnd(t)}

\* the defects of a week specification
Defects(str) ==
  IF BlankInput(str) THEN {"empty input"}
  ELSE UNION {AtomDefects(t) : t \in Atoms(str)}

\* the defect a WeekRangeParseError message reports
ReasonClass(error) ==
  CASE error = "Week specification cannot be empty" -> "empty input"
    [] error = "Invalid week specification: empty part" -> "empty atom"
    [] error = "Invalid range format" -> "malformed atom"
    [] error = "Invalid week number" -> "malformed atom"
    [] error = "Week number out of range" -> "out of range"
    [] error = "Invalid range: start week is greater than end week" -> "start exceeds end"
    [] OTHER -> "other"

\* C18: an input with an empty-input, empty-atom, malformed-atom, out-of-range or
\* start-exceeds-end defect is never given a list: parse_week_range raises, and the
\* reason raised is the reason of a defect the input has, each kind of defect having
\* a reason of its own.
C18_ParseRejects ==
  (Decided /\ Defects(call[1].arg) # {}) =>
    /\ ~call[1].outcome[1].ok
    /\ call[1].outcome[1].weeks = <<>>
    /\ ReasonClass(call[1].outcome[1].error) \in Defects(call[1].arg)

\* "5-4": a range whose start exceeds its end
C18_Witness ==
  /\ Decided
  /\ call[1].arg = <<"5", "-", "4">>
  /\ ~call[1].outcome[1].ok
  /\ call[1].outcome[1].error = "Invalid range: start week is greater than end week"

----------------------------------------------------------------------------
(* Properties of calculate_week_offset (SpecCalc) *)

\* C19: calculate_week_offset(by, bw, ty, tw) = (ty*52 + tw) - (by*52 + bw); it is 0
\* for identical pairs, antisymmetric and additive, and gives 2 from (2025,48) to
\* (2025,50), -2 from (2025,48) to (2025,46) and 2 from (2025,52) to (2026,2).
C19_OffsetLinear ==
  (call # None /\ call[1].fn = "calculate_week_offset" /\ call[1].outcome # None) =>
    LET a == call[1].arg.a
        b == call[1].arg.b
        o == call[1].outcome[1]
    IN /\ o.ab = (b[1] * 52 + b[2]) - (a[1] * 52 + a[2])
       /\ a = b => o.ab = 0
       /\ o.ba = -o.ab
       /\ o.ab = o.ac + o.cb
       /\ (a = <<2025, 48>> /\ b = <<2025, 50>>) => o.ab = 2
       /\ (a = <<2025, 48>> /\ b = <<2025, 46>>) => o.ab = -2
       /\ (a = <<2025, 52>> /\ b = <<2026, 2>>) => o.ab = 2

\* across the year boundary, by way of week 53 of 2025
C19_Witness ==
  /\ call # None
  /\ call[1].fn = "calculate_week_offset"
  /\ call[1].outcome # None
  /\ call[1].arg.a = <<2025, 52>>
  /\ call[1].arg.b = <<2026, 2>>
  /\ call[1].arg.c = <<2025, 53>>
  /\ call[1].outcome[1].ab = 2
  /\ call[1].outcome[1].ac = 1

----------------------------------------------------------------------------
(* Properties of the CSV loader (SpecCsv) *)

BlankProject(row_dict) ==
  \A k \in 1..Len(row_dict.project_number) : row_dict.project_number[k] = " "

RetainedLines(file) == {i \in 1..Len(file) : ~BlankProject(file[i])}

NthRetained(file, n) ==
  CHOOSE i \in RetainedLines(file) : Cardinality({j \in RetainedLines(file) : j <= i}) = n

\* C20: the loader returns, in file order, exactly the data rows whose project_number
\* is non-empty after trimming; a row with an empty project_number is skipped without
\* error, so an error about a row is about a retained one; and when no row is retained
\* the load fails with "no valid data rows" and never returns an empty list.
C20_CsvRowRetention ==
  (call # None /\ call[1].fn = "load_csv" /\ call[1].outcome # None) =>
    LET file == call[1].arg
        o == call[1].outcome[1]
    IN /\ o.ok =>
            /\ Len(o.rows) = Cardinality(RetainedLines(file))
            /\ o.rows # <<>>
            /\ \A n \in 1..Len(o.rows) :
                 LET src == file[NthRetained(file, n)]
                 IN /\ o.rows[n].project_number =
                         Trimmed(src.project_number, <<1, Len(src.project_number)>>)
                    /\ \A d \in Weekdays :
                         (o.rows[n].hours[d] = None) = (src.weekdays[d] = "")
       /\ (~o.ok /\ o.line # 0) => (o.line - 1) \in RetainedLines(file)
       /\ RetainedLines(file) = {} =>
            (~o.ok /\ o.error = "CSV file contains no valid data rows")

\* the first weekday, in column order, whose text is not empty and not a
\* non-negative number
BadHours(text) == text # "" /\ text # "7.5"

FirstBadDay(row_dict) ==
  LET bad == {k \in 1..Len(WEEKDAYS) : BadHours(row_dict.weekdays[WEEKDAYS[k]])}
  IN IF bad = {} THEN None ELSE Some(WEEKDAYS[CHOOSE m \in bad : \A n \in bad : m <= n])

\* the first data row, of rows as wide as the header, that is retained and has a bad cell
FirstBadLine(file) ==
  LET bad == {i \in RetainedLines(file) : FirstBadDay(file[i]) # None}
  IN IF bad = {} THEN 0 ELSE CHOOSE m \in bad : \A n \in bad : m <= n

\* C21: when a weekday cell of a retained row holds a negative number or a
\* non-numeric value, the load fails with an error that identifies the weekday field
\* name and the 1-based source line of that row (the first data row is line 2).
C21_HoursErrorContext ==
  (call # None /\ call[1].fn = "load_csv" /\ call[1].outcome # None) =>
    LET file == call[1].arg
        o == call[1].outcome[1]
        i == FirstBadLine(file)
    IN (i # 0 /\ \A j \in 1..i : ~file[j].surplus) =>
         /\ ~o.ok
         /\ o.named_line = Some(i + 1)
         /\ o.field = FirstBadDay(file[i])

----------------------------------------------------------------------------
(* Properties of CSVSchema.validate_headers (SpecHeaders) *)

CanonicalNames ==
  {"project_number", "project_name", "project_task"} \cup Weekdays

\* the canonical name a header stands for once blanks and case are disregarded
CanonicalOf(header) ==
  CASE header.core = "project_text" -> "project_name"
    [] header.core = "task" -> "project_task"
    [] OTHER -> header.core

NamesIn(headers) == {CanonicalOf(headers[i]) : i \in 1..Len(headers)}

\* C22: validate_headers accepts a header list iff each of the ten canonical names
\* occurs among the headers after trimming, lowercasing and alias mapping, whatever
\* the order, the case and the extra columns; when it rejects a non-empty list the
\* error lists exactly the missing canonical names.
C22_HeaderValidation ==
  (call # None /\ call[1].fn = "validate_headers" /\ call[1].outcome # None) =>
    LET headers == call[1].arg
        o == call[1].outcome[1]
        listed == {o.missing[i].core : i \in 1..Len(o.missing)}
    IN /\ o.is_valid = (CanonicalNames \subseteq NamesIn(headers))
       /\ (~o.is_valid /\ headers # <<>>) =>
            /\ listed = CanonicalNames \ NamesIn(headers)
            /\ \A i \in 1..Len(o.missing) : o.missing[i] = Str(o.missing[i].core)
            /\ Len(o.missing) = Cardinality(listed)

\* accepted: legacy names in upper case, reverse order, with an extra column
C22_Witness ==
  /\ call # None
  /\ call[1].fn = "validate_headers"
  /\ call[1].outcome # None
  /\ call[1].outcome[1].is_valid
  /\ Len(call[1].arg) = 11
  /\ call[1].arg[1] = HeaderStr("sunday", TRUE, FALSE)
  /\ \E i \in 1..11 : call[1].arg[i].core = "task"
  /\ \E i \in 1..11 : call[1].arg[i].core = "project_text"
  /\ \E i \in 1..11 : call[1].arg[i].core = "extra_column"

----------------------------------------------------------------------------
(* Properties of CSVLoader.load (SpecLoad) *)

\* every data row is as wide as the header at most, and no retained row has a bad cell
CleanRows(data) ==
  /\ \A i \in 1..Len(data) : ~data[i].surplus
  /\ FirstBadLine(data) = 0

\* C23: a file whose header has project_number and the seven weekday columns but no
\* project_name and no project_task column loads: one TimesheetRow per data line with
\* a non-empty project_number, weekday values parsed, empty cells None.
C23_LoadsWithoutNameAndTask ==
  (call # None /\ call[1].fn = "load" /\ call[1].outcome # None) =>
    LET file == call[1].arg
        o == call[1].outcome[1]
    IN (/\ NamesIn(file.headers) = {"project_number"} \cup Weekdays
        /\ CleanRows(file.rows)
        /\ RetainedLines(file.rows) # {}) =>
         /\ o.ok
         /\ Len(o.rows) = Cardinality(RetainedLines(file.rows))
         /\ \A n \in 1..Len(o.rows) :
              \A d \in Weekdays :
                LET text == file.rows[NthRetained(file.rows, n)].weekdays[d]
                IN o.rows[n].hours[d] = IF text = "" THEN None ELSE Some(75)

----------------------------------------------------------------------------
(* Properties of validate_args (SpecArgs) *)

\* C24: with an existing CSV and no dry-run/auto-submit conflict, validate_args
\* returns True and sets args.parsed_weeks to the list parse_week_range yields for
\* args.weeks (to None when args.weeks is None), and returns False when args.weeks
\* is an invalid specification.
C24_ValidateArgsWeeks ==
  (call # None /\ call[1].fn = "validate_args" /\ call[1].outcome # None) =>
    LET args == call[1].arg
        o == call[1].outcome[1]
    IN (args.csv_exists /\ ~(args.dry_run /\ args.auto_submit)) =>
         IF args.weeks = None
         THEN o.returned /\ [name |-> "parsed_weeks", value |-> None] \in o.set
         ELSE LET p == parse_week_range(args.weeks[1])
              IN IF p.ok
                 THEN o.returned /\ [name |-> "parsed_weeks", value |-> Some(p.weeks)] \in o.set
                 ELSE ~o.returned

----------------------------------------------------------------------------
(* Properties of TimesheetRow (SpecRow) *)

AllBlank(str) == \A k \in 1..Len(str) : str[k] = " "

\* C25: a TimesheetRow that exists has a non-empty project_number without leading or
\* trailing whitespace (construction with an empty or whitespace-only one raises),
\* and total_hours() is the sum of its non-null weekday values, 0 when all are null.
C25_RowInvariant ==
  (call # None /\ call[1].fn = "TimesheetRow" /\ call[1].outcome # None) =>
    LET arg == call[1].arg
        o == call[1].outcome[1]
    IN /\ (o.raised = "ValueError") = AllBlank(arg.project_number)
       /\ (o.row = None) = (o.raised # "")
       /\ o.row # None =>
            LET pn == o.row[1].project_number
            IN /\ pn # <<>>
               /\ pn[1] # " " /\ pn[Len(pn)] # " "
               /\ pn = Trimmed(arg.project_number, <<1, Len(arg.project_number)>>)
               /\ o.row[1].hours = arg.hours
               /\ o.total = Some(75 * Cardinality({d \in Weekdays : arg.hours[d] = Some(75)}))
               /\ (\A d \in Weekdays : arg.hours[d] = None) => o.total = Some(0)

\* a padded project number with an inner blank, two days of 7.5 and one of 0
C25_Witness ==
  /\ call # None
  /\ call[1].fn = "TimesheetRow"
  /\ call[1].outcome # None
  /\ call[1].arg.project_number = <<" ", "A", " ">>
  /\ call[1].outcome[1].row # None
  /\ call[1].outcome[1].row[1].project_number = <<"A">>
  /\ call[1].outcome[1].total = Some(150)
  /\ call[1].arg.hours["sunday"] = Some(0)

----------------------------------------------------------------------------
(* Properties of wait_for_manual_login (SpecLogin) *)

LoginCall == call # None /\ call[1].fn = "wait_for_manual_login"

GuiLoginOver == LoginCall /\ ~call[1].arg.headless /\ call[1].pc = "done"

Polls(seen) == Cardinality({k \in 1..Len(seen) : seen[k] \in PollOutcomes})

LoginWaitShape ==
  GuiLoginOver =>
    LET seen == call[1].seen
        n == Len(seen)
    IN /\ \A k \in 1..(n - 1) : seen[k] = "timeout"
       /\ Polls(seen) <= 60
       /\ seen[n] = "visible" => call[1].outcome = Some("returned")
       /\ seen[n] = "waited" =>
            /\ call[1].outcome = Some("returned")
            /\ n = 61 /\ call[1].elapsed = 120000
       /\ call[1].outcome = Some("raised") <=> seen[n] \in {"error", "wait_error"}
       /\ seen[n] = "wait_error" => n = 61
       /\ call[1].elapsed = 2000 * (IF seen[n] = "timeout" THEN n ELSE n - 1)

----------------------------------------------------------------------------
(* Properties of click_save (SpecSave) *)

\* C27: click_save waits for the primary locator first, for the first alternate only
\* if the primary wait timed out, for the second alternate only if both earlier waits
\* timed out; no locator is waited for twice; the click is issued at most once and
\* only on the first locator that became visible; if all three waits time out
\* click_save reports failure without clicking.
C27_SaveFallbackSequence ==
  (call # None /\ call[1].fn = "click_save" /\ call[1].outcome # None) =>
    LET env == call[1].arg
        o == call[1].outcome[1]
        n == Len(o.waited)
    IN /\ n \in 1..3
       /\ \A k \in 1..n : o.waited[k] = <<"primary", "alt", "alt2">>[k]
       /\ n >= 2 => env.wait["primary"] = "timeout"
       /\ n >= 3 => env.wait["alt"] = "timeout"
       /\ o.clicked # None =>
            /\ o.clicked[1] = o.waited[n]
            /\ env.wait[o.clicked[1]] = "visible"
            /\ \A k \in 1..(n - 1) : env.wait[o.waited[k]] = "timeout"
       /\ o.ok => o.clicked # None
       /\ (\A l \in {"primary", "alt", "alt2"} : env.wait[l] = "timeout") =>
            (~o.ok /\ o.clicked = None /\ n = 3)

\* both earlier waits timed out and the second alternate is the one clicked
C27_Witness ==
  /\ call # None
  /\ call[1].fn = "click_save"
  /\ call[1].outcome # None
  /\ call[1].arg.wait = [primary |-> "timeout", alt |-> "timeout", alt2 |-> "visible"]
  /\ call[1].outcome[1].ok
  /\ call[1].outcome[1].clicked = Some("alt2")
  /\ call[1].outcome[1].waited = <<"primary", "alt", "alt2">>

----------------------------------------------------------------------------
(* Commit on request (Spec) *)

\* target week j has finished filling and its click_save has been called
SaveDue(j) ==
  \/ j < week_index
  \/ j = week_index /\ fatal # None /\ fatal[1].cause = "Auto-submit failed"

----------------------------------------------------------------------------
(* Detection per target week (Spec) *)

\* C29: whenever an offset is computed for a target week, the page has been read in
\* that iteration and the offset is the one from the week the page displays then to
\* the target, not from the week detected at run start or in an earlier iteration.
C29_FreshDetection ==
  [][(offset' # None /\ offset' # offset) =>
       /\ ops[week_index].detect >= 1
       /\ week_index' = week_index
       /\ offset'[1] = calculate_week_offset(disp[1], disp[2], target[1], target[2])]_vars

\* the second target week: the page no longer displays the week detected at run start
C29_Witness ==
  /\ week_index = 2
  /\ pc = "click_arrow"
  /\ offset # None
  /\ current # None /\ baseline # None
  /\ current # baseline
  /\ offset[1] = calculate_week_offset(current[1], current[2], target[1], target[2])
  /\ offset[1] # calculate_week_offset(baseline[1], baseline[2], target[1], target[2])

----------------------------------------------------------------------------
(* Target year (Spec) *)

TargetYearResolved ==
  (target # None /\ baseline # None) =>
    target[1] = IF config.year # None THEN config.year[1] ELSE baseline[1]

\* C30: the target year of every target week is Config.year when it is set and the
\* year of the initial baseline detection otherwise; the baseline is read once, before
\* the first target week, and no later detection changes it or the configuration.
C30_TargetYear ==
  /\ [](TargetYearResolved)
  /\ [][/\ config' = config
        /\ baseline # None => baseline' = baseline
        /\ (baseline = None /\ baseline' # None) =>
             (baseline' = disp /\ pc = "detect_baseline" /\ target = None)]_vars

\* the second target week, re-detected on another week than the baseline, with the
\* year not configured
C30_Witness ==
  /\ config.year = None
  /\ week_index = 2
  /\ Len(ops) = 2
  /\ ops[2].detect >= 1
  /\ pc = "fill_timesheet"
  /\ current # None /\ current # baseline
  /\ target[1] = baseline[1]
  /\ disp # baseline

----------------------------------------------------------------------------
(* Week processing order (Spec) *)

WeekSpecSupplied == config.weeks # None /\ Len(config.weeks[1]) > 0

\* the rows of target week j have all been looked up, once each
WeekFilled(j) == ops[j].row = Len(rows)

WeekOrder ==
  (WeekSpecSupplied /\ baseline # None) =>
    /\ weeks_to_process = config.weeks[1]
    /\ \A i, j \in 1..Len(weeks_to_process) :
         i < j => weeks_to_process[i] < weeks_to_process[j]
    /\ (target # None /\ week_index \in 1..Len(weeks_to_process) /\ pc # "loop") =>
         target[2] = weeks_to_process[week_index]
    /\ LaterWeeksUntouched(week_index)
    /\ \A j \in DOMAIN ops :
         /\ ops[j].row <= Len(rows)
         /\ j < week_index =>
              WeekFilled(j) /\ (config.auto_submit => ops[j].save = 1)
    /\ returned # None => week_index = Len(weeks_to_process) + 1

\* C31: when a WeekSpec is supplied the run processes its weeks in ascending
\* week-number order, each week exactly once, and starts a week only after the one
\* before has been filled, and saved when auto-submit is on.
C31_WeekProcessingOrder ==
  /\ [](WeekOrder)
  /\ [][(WeekSpecSupplied /\ week_index > 0 /\ week_index' # week_index) =>
         /\ week_index' = week_index + 1
         /\ pc \in {"fill_done", "click_save"}
         /\ WeekFilled(week_index)
         /\ config.auto_submit => ops'[week_index].save = 1
         /\ weeks_to_process' = weeks_to_process]_vars

\* both weeks of a two-week specification were processed and the run returned
C31_Witness ==
  /\ WeekSpecSupplied
  /\ returned # None
  /\ Len(weeks_to_process) = 2
  /\ weeks_to_process[1] < weeks_to_process[2]
  /\ WeekFilled(1) /\ WeekFilled(2)
  /\ ops[1].cell > 0 /\ ops[2].cell > 0

----------------------------------------------------------------------------
(* Navigation bounds (SpecNav) *)

NavDecided == call # None /\ call[1].fn = "navigate_to_week" /\ call[1].outcome # None

----------------------------------------------------------------------------
(* Baseline detection failure (Spec) *)

BaselineFailures == {"Failed to find timesheet table after login",
                     "Could not detect baseline week from DOM"}

\* no week has been chosen and the page has not been acted on
NothingDone ==
  /\ ops = <<>> /\ lastCell = None
  /\ weeks_to_process = <<>> /\ week_index = 0 /\ target = None /\ current = None
  /\ offset = None /\ click_i = 0
  /\ week_summary = FillSummary /\ overall_summary = FillSummary
  /\ returned = None

\* C33: when the table does not become visible after login, or the displayed week
\* cannot be read at run start, run_fill_operation raises with no navigation click,
\* cell write or save click performed and no week chosen; a run goes on only with
\* the week the page displays as its baseline.
C33_BaselineFailureFatal ==
  /\ [](/\ baseline = None => NothingDone
        /\ (raised # None /\ raised[1].week = None /\ raised[1].cause \in BaselineFailures) =>
             pc = "raised" /\ baseline = None /\ fatal = None)
  /\ [][/\ (pc = "wait_for_table" /\ pc' # pc) =>
             \/ pc' = "detect_baseline" /\ raised' = None
             \/ pc' = "raised" /\ raised' # None /\ raised'[1].cause \in BaselineFailures
        /\ (pc = "detect_baseline" /\ pc' # pc) =>
             \/ pc' = "loop" /\ raised' = None /\ baseline' = disp
             \/ pc' = "raised" /\ raised' # None /\ raised'[1].cause \in BaselineFailures
                            /\ baseline' = None]_vars

\* the run raised because the week display could not be read at run start
C33_Witness ==
  /\ pc = "raised"
  /\ raised # None
  /\ raised[1].cause = "Could not detect baseline week from DOM"
  /\ raised[1].week = None
  /\ NothingDone

----------------------------------------------------------------------------
(* Null means no instruction (SpecFill) *)

\* the weekdays before position n that carry a value in row, Monday first
InstructedBefore(row, n) ==
  SelectSeq(SubSeq(WEEKDAYS, 1, n - 1), LAMBDA d : get_weekday_value(row, d) # None)

RECURSIVE CellResultCount(_)
CellResultCount(res) ==
  IF res = <<>> THEN 0 ELSE Len(Head(res).cell_results) + CellResultCount(Tail(res))

\* C34: for a found project there is one CellFillResult per weekday whose value is
\* not None, in Monday-to-Sunday order; _fill_cell is called for those weekdays only,
\* so a weekday without a value is never located, read, cleared or written, and a
\* value of 0 is handled as any other value.
C34_NullMeansNoInstruction ==
  /\ [](pc = "fill_cell" =>
          LET row == rows[row_index]
              due == InstructedBefore(row, day_index)
          IN /\ Len(result.cell_results) = Len(due)
             /\ \A k \in 1..Len(due) :
                  /\ result.cell_results[k].weekday = due[k]
                  /\ Some(result.cell_results[k].value) = get_weekday_value(row, due[k])
             /\ ops[1].cell = CellResultCount(week_summary.project_results)
                                + Len(result.cell_results)
             /\ lastCell # None =>
                  /\ lastCell[1].result = result.cell_results[Len(result.cell_results)]
                  /\ lastCell[1].result.weekday = WEEKDAYS[day_index - 1])
  /\ [](pc = "fill_done" => ops[1].cell = CellResultCount(week_summary.project_results))
  /\ [][ops' # ops /\ ops'[1].cell # ops[1].cell =>
         /\ ops'[1].cell = ops[1].cell + 1
         /\ lastCell' # None
         /\ LET d == lastCell'[1].result.weekday
                row == rows[row_index]
            IN /\ get_weekday_value(row, d) = Some(lastCell'[1].result.value)
               /\ \A i \in day_index..(day_index' - 2) :
                    get_weekday_value(row, WEEKDAYS[i]) = None
               /\ d = WEEKDAYS[day_index' - 1]]_vars

\* Monday has no value and was passed over; Tuesday's value 0 was written as "0.0"
C34_Witness ==
  /\ pc = "fill_cell"
  /\ get_weekday_value(rows[row_index], "monday") = None
  /\ get_weekday_value(rows[row_index], "tuesday") = Some(0)
  /\ day_index = 3
  /\ lastCell # None
  /\ lastCell[1].result.weekday = "tuesday"
  /\ lastCell[1].result.value = 0
  /\ lastCell[1].written /\ lastCell[1].result.success
  /\ lastCell[1].after = "0.0"
  /\ Len(result.cell_results) = 1

----------------------------------------------------------------------------
(* Cell outcome invariant (SpecFill) *)

CellFailed(c) == ~c.success /\ ~c.skipped

CellOutcomeOk(c) ==
  /\ ~(c.success /\ c.skipped)
  /\ (c.error # None) <=> CellFailed(c)

CountSuccess(cells) == Cardinality({k \in 1..Len(cells) : cells[k].success})

CountSkipped(cells) == Cardinality({k \in 1..Len(cells) : cells[k].skipped})

CountFailed(cells) == Cardinality({k \in 1..Len(cells) : CellFailed(cells[k])})

ProjectOutcomeOk(r) ==
  /\ \A k \in 1..Len(r.cell_results) : CellOutcomeOk(r.cell_results[k])
  /\ r.cells_filled = CountSuccess(r.cell_results)
  /\ r.cells_skipped = CountSkipped(r.cell_results)
  /\ r.cells_failed = CountFailed(r.cell_results)
  /\ r.cells_filled + r.cells_skipped + r.cells_failed = Len(r.cell_results)
  /\ r.error # None => ~r.project_found

\* C35: every CellFillResult is exactly one of success, skipped and failed, with an
\* error if and only if it is failed; every ProjectFillResult counts each of its
\* cell results under its one outcome, so that the three counters add up to the
\* number of cell results, and carries an error only when the project was not found.
C35_CellOutcome ==
  /\ lastCell # None => CellOutcomeOk(lastCell[1].result)
  /\ pc = "fill_cell" => ProjectOutcomeOk(result)
  /\ \A i \in 1..Len(week_summary.project_results) :
       ProjectOutcomeOk(week_summary.project_results[i])

\* a found project whose cells were one filled and one skipped, and a missing one
C35_Witness ==
  /\ pc = "fill_done"
  /\ \E i, j \in 1..Len(week_summary.project_results) :
       LET r == week_summary.project_results[i]
           n == week_summary.project_results[j]
       IN /\ r.project_found /\ r.error = None
          /\ r.cells_filled = 1 /\ r.cells_skipped = 1 /\ r.cells_failed = 0
          /\ Len(r.cell_results) = 2
          /\ ~n.project_found /\ n.error # None

----------------------------------------------------------------------------
(* Run termination (SpecTermination) *)

RunEnded == returned # None \/ raised # None

IterationBounds ==
  /\ Len(weeks_to_process) <= MaxWeeks
  /\ week_index <= Len(weeks_to_process) + 1
  /\ row_index <= Len(rows) + 1
  /\ day_index <= Len(WEEKDAYS) + 1
  /\ \A j \in DOMAIN ops :
       /\ ops[j].forward + ops[j].backward <= 20
       /\ ops[j].forward <= MaxForward
       /\ ops[j].backward <= MaxBackward
       /\ ops[j].row <= Len(rows)
       /\ ops[j].cell <= Len(rows) * Len(WEEKDAYS)
       /\ ops[j].save_call <= 1

\* C36: once the login wait has returned the run eventually returns a summary or
\* raises; no target week takes more than 20 navigation clicks, and the weeks, rows
\* and weekdays iterated are bounded by the lengths of the week list, the row list
\* and the seven weekdays.
C36_RunTerminates ==
  /\ (pc = "wait_for_table") ~> RunEnded
  /\ [](IterationBounds)
  /\ [](RunEnded => pc \in {"done", "raised"})

\* a run that clicked 20 weeks back for its first target week and returned
C36_Witness ==
  /\ returned # None
  /\ pc = "done"
  /\ ops[1].backward = 20
  /\ ops[1].cell > 0

----------------------------------------------------------------------------
(* The offset 0 shortcut (Spec) *)

\* C37: calculate_week_offset is 0 only for identical (year, week) pairs, so that
\* navigate_to_week finds offset 0, and clicks nothing, only when the week the page
\* was detected on is the target week.
C37_ZeroOffsetSameWeek ==
  (offset # None /\ offset[1] = 0 /\ current # None /\ target # None) => current = target

----------------------------------------------------------------------------
(* Multi-week aggregation (Spec) *)

\* the result of input row i in target week w, in a summary of whole weeks
ResultAt(s, w, i) == s.project_results[(w - 1) * Len(rows) + i]

\* the target weeks among the first k in which input row i was not found
MissingWeeks(s, k, i) == {w \in 1..k : ~ResultAt(s, w, i).project_found}

Occurrences(seq, x) == Cardinality({m \in 1..Len(seq) : seq[m] = x})

RECURSIVE MissingTotal(_, _, _)
MissingTotal(s, k, n) ==
  IF n = 0 THEN 0 ELSE Cardinality(MissingWeeks(s, k, n)) + MissingTotal(s, k, n - 1)

\* summary s holds k whole weeks of the n input rows
WeeksAggregated(s, k) ==
  LET n == Len(rows)
  IN /\ s.total_projects = k * n
     /\ Len(s.project_results) = k * n
     /\ \A w \in 1..k : \A i \in 1..n :
          ResultAt(s, w, i).project_number = rows[i].project_number
     /\ \A i \in 1..n :
          Occurrences(s.missing_projects, rows[i].project_number)
            = Cardinality(MissingWeeks(s, k, i))
     /\ s.projects_not_found = MissingTotal(s, k, n)
     /\ s.projects_found = k * n - MissingTotal(s, k, n)

\* C38: the summary a run over k target weeks and n input rows returns has
\* total_projects = k * n and holds the n per-row results of each week in processing
\* order, each week's results appended as that week ends; a project missing in j of
\* the k weeks is j times in missing_projects and adds j to projects_not_found.
C38_MultiWeekAggregation ==
  /\ [](returned # None => WeeksAggregated(returned[1], Len(weeks_to_process)))
  /\ [](pc = "loop" => WeeksAggregated(overall_summary, week_index - 1))
  /\ [][overall_summary' # overall_summary /\ pc = "fill_done" =>
         /\ overall_summary'.project_results
              = overall_summary.project_results \o week_summary.project_results
         /\ Len(week_summary.project_results) = Len(rows)]_vars

\* two weeks: the second row's project was missing in both, the first row's in none
C38_Witness ==
  /\ returned # None
  /\ Len(weeks_to_process) = 2
  /\ returned[1].total_projects = 2 * Len(rows)
  /\ MissingWeeks(returned[1], 2, 2) = {1, 2}
  /\ MissingWeeks(returned[1], 2, 1) = {}
  /\ returned[1].missing_projects = <<rows[2].project_number, rows[2].project_number>>
  /\ returned[1].projects_not_found = 2

----------------------------------------------------------------------------
(* Template round trip (SpecTemplate) *)

TemplateLoaded ==
  call # None /\ call[1].fn = "generate_csv_template" /\ call[1].outcome # None

\* C39: a template written from k valid project entries is accepted by the loader
\* and loads as k rows, in the same order, with the project_number, project_name and
\* project_task of the entries as validated and every weekday value 0, not None.
C39_TemplateRoundTrip ==
  TemplateLoaded =>
    LET entries == call[1].arg
        loaded == call[1].outcome[1]
    IN /\ loaded.ok
       /\ Len(loaded.rows) = Len(entries)
       /\ \A k \in 1..Len(loaded.rows) :
            LET project == validate_project_data(entries[k]).project[1]
            IN /\ loaded.rows[k].project_number = project.project_number
               /\ loaded.rows[k].project_name = project.project_name
               /\ loaded.rows[k].project_task = project.project_task
               /\ \A d \in Weekdays : loaded.rows[k].hours[d] = Some(0)

----------------------------------------------------------------------------
(* One browser session at a time (SpecGui) *)

\* the worker threads whose operation has not returned or raised yet
Running(w) == {k \in 1..Len(w.workers) : w.workers[k].state = "running"}

\* C40: while an AutomationWorker started by runAutomation has not emitted finished
\* or error, no other worker thread, AutomationWorker or FetchTemplateWorker, is
\* running; every worker emits exactly one signal; and once the last automation
\* signal has been handled the Run and Validate buttons are enabled.
C40_OneSessionAtATime ==
  GuiCall =>
    LET w == call[1]
    IN /\ (\E k \in Running(w) : w.workers[k].kind = "automation") =>
            Cardinality(Running(w)) = 1
       /\ \A k \in 1..Len(w.workers) :
            w.workers[k].emitted = IF w.workers[k].state = "running" THEN 0 ELSE 1
       /\ (w.workers # <<>> /\ \A k \in 1..Len(w.workers) : w.workers[k].state = "handled") =>
            w.run_button /\ w.validate_button

====
